---- MODULE Spec2Model ----
(***************************************************************************)
(* A model of the water-area filler of arnis                               *)
(* (src/src/element_processing/water_areas.rs) together with the parts of  *)
(* Ground (src/src/ground.rs) and ElevationData                            *)
(* (src/src/elevation_data.rs) it reads.                                   *)
(*                                                                         *)
(* Cells are lattice points <<x, z>>; a block position is <<x, y, z>>.     *)
(* Polygons handed to the geo crate are sequences of <<x, z>> vertices.    *)
(* The rings of the bounded input catalogue are convex, so the geo         *)
(* predicates intersects/contains are computed exactly with integer cross  *)
(* products (separating axes).                                             *)
(***************************************************************************)
EXTENDS Integers, Sequences, FiniteSets, TLC

\* ------------------------------------------------------------------ bounds
\* The world rectangle is [MinX, MaxX] x [MinZ, MaxZ], both ends inclusive.
MaxX == 6
MaxZ == 6
\* ITERATIVE_THRES of inverse_floodfill_recursive is 10_000 in the source; the
\* model scales it to the bounded world so that the recursion still subdivides.
IterativeThres == 8

MinX == 0
MinZ == 0
MIN_Y == -64
MAX_Y == 319

\* ----------------------------------------------------------------- helpers
Abs(n) == IF n < 0 THEN -n ELSE n
Sgn(n) == IF n < 0 THEN -1 ELSE IF n > 0 THEN 1 ELSE 0
Min2(a, b) == IF a <= b THEN a ELSE b
Max2(a, b) == IF a >= b THEN a ELSE b
Clamp(v, lo, hi) == IF v < lo THEN lo ELSE IF v > hi THEN hi ELSE v
SetMin(S) == CHOOSE m \in S : \A n \in S : m <= n
SetMax(S) == CHOOSE m \in S : \A n \in S : m >= n

\* Rust's integer division truncates toward zero.
TruncDiv(n, d) == IF n >= 0 THEN n \div d ELSE -((-n) \div d)

\* f64::round / f32::round of the rational n/d (d # 0): half away from zero.
RoundDiv(n, d) ==
    LET dd == IF d < 0 THEN -d ELSE d
        nn == IF d < 0 THEN -n ELSE n
        an == IF nn < 0 THEN -nn ELSE nn
        q == an \div dd
        up == IF 2 * (an % dd) >= dd THEN q + 1 ELSE q
    IN  IF nn >= 0 THEN up ELSE -up

Range(s) == {s[i] : i \in 1..Len(s)}

\* ------------------------------------------------ geo crate on convex rings
\* (b - a) x (p - a)
Cross(a, b, p) == (b[1] - a[1]) * (p[2] - a[2]) - (b[2] - a[2]) * (p[1] - a[1])

\* Polygon::new closes the line string: edge i runs from vertex i to the next
\* vertex, the last one back to the first.
EdgeFrom(poly, i) == poly[i]
EdgeTo(poly, i) == poly[(i % Len(poly)) + 1]

PolyXs(poly) == {poly[i][1] : i \in 1..Len(poly)}
PolyZs(poly) == {poly[i][2] : i \in 1..Len(poly)}

\* Rect::new(Point(x0, z0), Point(x1, z1)) as its four corners.
Corners(x0, z0, x1, z1) == {<<x0, z0>>, <<x1, z0>>, <<x1, z1>>, <<x0, z1>>}

\* A separating axis between a convex polygon and an axis-aligned rectangle:
\* one of the rectangle's axes, or the normal of an edge of the polygon.
Separated(poly, x0, z0, x1, z1) ==
    \/ SetMax(PolyXs(poly)) < x0
    \/ SetMin(PolyXs(poly)) > x1
    \/ SetMax(PolyZs(poly)) < z0
    \/ SetMin(PolyZs(poly)) > z1
    \/ \E i \in 1..Len(poly) :
         LET a == EdgeFrom(poly, i)
             b == EdgeTo(poly, i)
         IN  \/ /\ \A j \in 1..Len(poly) : Cross(a, b, poly[j]) <= 0
                /\ \A c \in Corners(x0, z0, x1, z1) : Cross(a, b, c) > 0
             \/ /\ \A j \in 1..Len(poly) : Cross(a, b, poly[j]) >= 0
                /\ \A c \in Corners(x0, z0, x1, z1) : Cross(a, b, c) < 0

\* geo::Intersects: the closed polygon and the closed rectangle share a point.
Intersects(poly, x0, z0, x1, z1) ==
    /\ Len(poly) > 0
    /\ ~Separated(poly, x0, z0, x1, z1)

\* Twice the signed area of the polygon.
Area2(poly) ==
    LET RECURSIVE Sum(_)
        Sum(i) == IF i > Len(poly) THEN 0
                  ELSE EdgeFrom(poly, i)[1] * EdgeTo(poly, i)[2]
                       - EdgeTo(poly, i)[1] * EdgeFrom(poly, i)[2] + Sum(i + 1)
    IN  Sum(1)

\* p is a point of the closed convex polygon.
InClosed(poly, p) ==
    /\ Len(poly) > 0
    /\ p[1] >= SetMin(PolyXs(poly)) /\ p[1] <= SetMax(PolyXs(poly))
    /\ p[2] >= SetMin(PolyZs(poly)) /\ p[2] <= SetMax(PolyZs(poly))
    /\ \/ \A i \in 1..Len(poly) : Cross(EdgeFrom(poly, i), EdgeTo(poly, i), p) >= 0
       \/ \A i \in 1..Len(poly) : Cross(EdgeFrom(poly, i), EdgeTo(poly, i), p) <= 0

\* geo::Contains: no point of the rectangle lies outside the polygon and the
\* interiors meet. (For a rectangle of zero width or height the answer does not
\* reach the editor: rect_fill then iterates an empty range.)
Contains(poly, x0, z0, x1, z1) ==
    /\ Len(poly) > 0
    /\ Area2(poly) # 0
    /\ \A c \in Corners(x0, z0, x1, z1) : InClosed(poly, c)

\* ------------------------------------------------------- ElevationData, Ground
\* ElevationData as a record: heights is the flat Vec<i16> read as a function of
\* <<x, z>>; scaled_range is the rational scaled_num / scaled_den.
\* A conversion that leaves the clamp out.
height_at_Unclamped(data, x, z) ==
    LET raw == data.heights[<<x, z>>]
        rel == raw - data.min_height
    IN  IF data.height_range = 0
        THEN 0
        ELSE RoundDiv(data.ground_level * data.height_range * data.scaled_den
                        + rel * data.scaled_num,
                      data.height_range * data.scaled_den)

\* height_at: the division by height_range = 0 gives NaN (0/0), which
\* `as i32` turns into 0 before the clamp.
height_at(data, x, z) ==
    LET raw == data.heights[<<x, z>>]
        rel == raw - data.min_height
    IN  IF data.height_range = 0
        THEN Clamp(0, data.ground_level, MAX_Y)
        ELSE Clamp(RoundDiv(data.ground_level * data.height_range * data.scaled_den
                              + rel * data.scaled_num,
                            data.height_range * data.scaled_den),
                   data.ground_level, MAX_Y)

\* get_data_coordinates followed by interpolate_height, for one axis:
\* ratio = clamp(c / size, 0, 1); index = min(round(ratio * (size - 1)), size - 1).
DataIndex(c, size) ==
    LET num == IF c <= 0 THEN 0 ELSE IF c >= size THEN size ELSE c
    IN  Min2(RoundDiv(num * (size - 1), size), size - 1)

\* Ground::level
GroundLevelAt(g, x, z) ==
    IF ~g.elevation_enabled \/ ~g.has_data
    THEN g.ground_level
    ELSE height_at(g.data, DataIndex(x, g.data.width), DataIndex(z, g.data.height))

\* Ground::min_level over a set of points: an Option, [some, val].
min_level(g, pts) ==
    IF ~g.elevation_enabled THEN [some |-> TRUE, val |-> g.ground_level]
    ELSE IF pts = {} THEN [some |-> FALSE, val |-> 0]
    ELSE [some |-> TRUE, val |-> SetMin({GroundLevelAt(g, p[1], p[2]) : p \in pts})]

\* Ground::new_flat
new_flat(level) ==
    [present |-> TRUE, elevation_enabled |-> FALSE, has_data |-> FALSE,
     ground_level |-> level, data |-> <<>>]

\* Ground::from_heights: identity scaling (min_height 0, height_range 1,
\* scaled_range 1.0).
from_heights(level, w, h, hts) ==
    [present |-> TRUE, elevation_enabled |-> TRUE, has_data |-> TRUE,
     ground_level |-> level,
     data |-> [heights |-> hts, width |-> w, height |-> h, min_height |-> 0,
               height_range |-> 1, ground_level |-> level,
               scaled_num |-> 1, scaled_den |-> 1]]

\* WorldEditor::new leaves the ground unset: get_ground() is None.
NoGround ==
    [present |-> FALSE, elevation_enabled |-> FALSE, has_data |-> FALSE,
     ground_level |-> 0, data |-> <<>>]

\* Terrain of the bounded runs: the left columns are two metres higher than the
\* right ones (the shape water_area_excavates_to_min_level builds).
StepHeights == [c \in (0..MaxX) \X (0..MaxZ) |-> IF c[1] < 3 THEN 2 ELSE 0]

Grounds ==
    {NoGround, new_flat(2), new_flat(-2),
     from_heights(1, MaxX + 1, MaxZ + 1, StepHeights)}

\* -------------------------------------------------------------- WorldEditor
\* set_block_absolute / set_biome_absolute drop a write outside the world
\* rectangle or outside the supported Y range.
InWorld(x, z) == x >= MinX /\ x <= MaxX /\ z >= MinZ /\ z <= MaxZ
Lands(p) == InWorld(p[1], p[3]) /\ p[2] >= MIN_Y /\ p[2] <= MAX_Y

\* The y values one selected cell receives (the body shared by rect_fill,
\* inverse_floodfill_iterative and fill_from_barriers).
ColumnYs(g, x, z, water_level) ==
    IF g.present
    THEN LET terrain == GroundLevelAt(g, x - MinX, z - MinZ)
         IN  IF terrain >= water_level THEN water_level..terrain ELSE {water_level}
    ELSE {water_level}

\* The block positions written for a set of selected cells.
ColumnWrites(g, cells, water_level) ==
    UNION {{<<c[1], y, c[2]>> : y \in ColumnYs(g, c[1], c[2], water_level)} : c \in cells}

\* ---------------------------------------------------------------------- tags
\* A tag dictionary is a function from keys to values; the value of "layer" is
\* kept as its characters so that parsing is modelled.
Has(tags, k) == k \in DOMAIN tags
TagIs(tags, k, v) == Has(tags, k) /\ tags[k] = v

Digits == <<"0", "1", "2", "3", "4", "5", "6", "7", "8", "9">>
DigitVal(ch) == CHOOSE d \in 0..9 : Digits[d + 1] = ch
IsDigit(ch) == \E d \in 0..9 : Digits[d + 1] = ch

\* str::parse::<i32>: an optional sign, then at least one digit and nothing else.
ParseI32(chars) ==
    LET signed == Len(chars) > 0 /\ chars[1] \in {"-", "+"}
        body == IF signed THEN Tail(chars) ELSE chars
        RECURSIVE Val(_, _)
        Val(i, acc) == IF i > Len(body) THEN acc
                       ELSE Val(i + 1, 10 * acc + DigitVal(body[i]))
    IN  IF Len(body) = 0 \/ \E i \in 1..Len(body) : ~IsDigit(body[i])
        THEN [ok |-> FALSE, val |-> 0]
        ELSE [ok |-> TRUE,
              val |-> IF signed /\ chars[1] = "-" THEN -Val(1, 0) ELSE Val(1, 0)]

\* layer.parse::<i32>().map(|x| x < 0).unwrap_or(false)
LayerNegative(tags) ==
    /\ Has(tags, "layer")
    /\ ParseI32(tags["layer"]).ok
    /\ ParseI32(tags["layer"]).val < 0

\* The is_water test of generate_water_areas_internal.
IsWaterRelation(tags) ==
    \/ Has(tags, "water")
    \/ TagIs(tags, "natural", "water")
    \/ TagIs(tags, "waterway", "riverbank")

\* A gate that takes every waterway=river way for water, area or not.
IsWaterWay_AnyRiver(tags) ==
    \/ Has(tags, "water")
    \/ TagIs(tags, "natural", "water")
    \/ TagIs(tags, "waterway", "riverbank")
    \/ TagIs(tags, "water", "river")
    \/ TagIs(tags, "waterway", "river")

\* The is_water test of generate_water_area_from_way_internal.
IsWaterWay(tags) ==
    \/ Has(tags, "water")
    \/ TagIs(tags, "natural", "water")
    \/ TagIs(tags, "waterway", "riverbank")
    \/ TagIs(tags, "water", "river")
    \/ (TagIs(tags, "waterway", "river") /\ TagIs(tags, "area", "yes"))

\* ------------------------------------------------------------- ring assembly
\* A ProcessedNode is [id, x, z]; a way's nodes are a sequence of nodes.
Node(i, x, z) == [id |-> i, x |-> x, z |-> z]
Xz(nodes) == [i \in 1..Len(nodes) |-> <<nodes[i].x, nodes[i].z>>]
Reverse(s) == [i \in 1..Len(s) |-> s[Len(s) + 1 - i]]
\* A skip that keeps the first element.
Skip1_Keep(s) == s

\* iter().skip(1)
Skip1(s) == IF Len(s) = 0 THEN s ELSE Tail(s)

\* o.first().map(|n| n.id) != o.last().map(|n| n.id): an empty way compares
\* None with None and is not open.
IsOpen(nodes) == Len(nodes) > 0 /\ nodes[1].id # nodes[Len(nodes)].id

\* One pass of the i/j loops of merge_loopy_loops, pair number k (row-major),
\* carrying the removed indices and the merged ways. Indexing x[0] or
\* x.last().unwrap() of an empty way panics.
RECURSIVE MergePass(_, _, _, _)
MergePass(loops, k, removed, merged) ==
    LET n == Len(loops)
        i == (k \div n) + 1
        j == (k % n) + 1
        x == loops[i]
        y == loops[j]
        lx == x[Len(x)]
        ly == y[Len(y)]
    IN  IF n = 0 \/ k >= n * n
        THEN [panic |-> FALSE, removed |-> removed, merged |-> merged]
        ELSE IF i = j \/ i \in removed \/ j \in removed
        THEN MergePass(loops, k + 1, removed, merged)
        ELSE IF Len(x) = 0
        THEN [panic |-> TRUE, removed |-> removed, merged |-> merged]
        ELSE IF x[1].id = lx.id
        THEN MergePass(loops, k + 1, removed, merged)
        ELSE IF Len(y) = 0
        THEN [panic |-> TRUE, removed |-> removed, merged |-> merged]
        ELSE IF y[1].id = ly.id
        THEN MergePass(loops, k + 1, removed, merged)
        ELSE IF x[1].id = y[1].id
        THEN MergePass(loops, k + 1, removed \cup {i, j},
                       Append(merged, Reverse(x) \o Skip1(y)))
        ELSE IF lx.id = ly.id
        THEN MergePass(loops, k + 1, removed \cup {i, j},
                       Append(merged, x \o Skip1(Reverse(y))))
        ELSE IF x[1].id = ly.id
        THEN MergePass(loops, k + 1, removed \cup {i, j},
                       Append(merged, y \o Skip1(x)))
        ELSE IF lx.id = y[1].id
        THEN MergePass(loops, k + 1, removed \cup {i, j},
                       Append(merged, x \o Skip1(y)))
        ELSE MergePass(loops, k + 1, removed, merged)

\* loops with the removed indices taken out, order kept.
RECURSIVE RemoveIndices(_, _, _)
RemoveIndices(loops, removed, i) ==
    IF i > Len(loops) THEN <<>>
    ELSE IF i \in removed THEN RemoveIndices(loops, removed, i + 1)
    ELSE <<loops[i]>> \o RemoveIndices(loops, removed, i + 1)

\* merge_loopy_loops: [panic, loops]; it calls itself again while a pass merged
\* something.
RECURSIVE merge_loopy_loops(_)
merge_loopy_loops(loops) ==
    LET r == MergePass(loops, 0, {}, <<>>)
        next == RemoveIndices(loops, r.removed, 1) \o r.merged
    IN  IF r.panic THEN [panic |-> TRUE, loops |-> loops]
        ELSE IF Len(r.merged) > 0 THEN merge_loopy_loops(next)
        ELSE [panic |-> FALSE, loops |-> next]

\* verify_loopy_loops: [panic, valid]; l[0] of an empty way panics.
verify_loopy_loops(loops) ==
    IF \E i \in 1..Len(loops) : Len(loops[i]) = 0
    THEN [panic |-> TRUE, valid |-> FALSE]
    ELSE [panic |-> FALSE, valid |-> \A i \in 1..Len(loops) : ~IsOpen(loops[i])]

\* ------------------------------------------------------------ geometry kernel
\* bresenham_line(x1, 0, z1, x2, 0, z2) as the set of <<x, z>> it yields: the
\* axis of greatest delta drives (x on a tie), both endpoints included.
StepSign(from, to) == IF from < to THEN 1 ELSE -1

RECURSIVE BresX(_, _, _, _, _)
BresX(x, z, a, b, p) ==
    LET dx == Abs(b[1] - a[1])
        dz == Abs(b[2] - a[2])
        hit == p >= 0
        z1 == IF hit THEN z + StepSign(a[2], b[2]) ELSE z
        p1 == (IF hit THEN p - 2 * dx ELSE p) + 2 * dz
    IN  IF x = b[1] THEN {b}
        ELSE {<<x, z>>} \cup BresX(x + StepSign(a[1], b[1]), z1, a, b, p1)

RECURSIVE BresZ(_, _, _, _, _)
BresZ(x, z, a, b, p) ==
    LET dx == Abs(b[1] - a[1])
        dz == Abs(b[2] - a[2])
        hit == p >= 0
        x1 == IF hit THEN x + StepSign(a[1], b[1]) ELSE x
        p1 == (IF hit THEN p - 2 * dz ELSE p) + 2 * dx
    IN  IF z = b[2] THEN {b}
        ELSE {<<x, z>>} \cup BresZ(x1, z + StepSign(a[2], b[2]), a, b, p1)

bresenham_line(a, b) ==
    LET dx == Abs(b[1] - a[1])
        dz == Abs(b[2] - a[2])
    IN  IF dx >= dz
        THEN BresX(a[1], a[2], a, b, 2 * dz - dx)
        ELSE BresZ(a[1], a[2], a, b, 2 * dx - dz)

in_bounds(x, z) == x >= MinX /\ x <= MaxX /\ z >= MinZ /\ z <= MaxZ

\* The t candidates of clip_to_border as fractions <<n, d>> with d > 0. Only the
\* position of b selects a side, so an edge that ends inside has no candidate.
Frac(n, d) == IF d < 0 THEN <<-n, -d>> ELSE <<n, d>>
ClipCandidates(a, b) ==
    LET dx == b[1] - a[1]
        dz == b[2] - a[2]
    IN  (IF dx # 0 /\ b[1] < MinX THEN {Frac(MinX - a[1], dx)}
         ELSE IF dx # 0 /\ b[1] > MaxX THEN {Frac(MaxX - a[1], dx)} ELSE {})
        \cup
        (IF dz # 0 /\ b[2] < MinZ THEN {Frac(MinZ - a[2], dz)}
         ELSE IF dz # 0 /\ b[2] > MaxZ THEN {Frac(MaxZ - a[2], dz)} ELSE {})

\* v + d * inf, rounded and cast to i32: +inf saturates to i32::MAX, -inf to
\* i32::MIN, and 0 * inf is NaN, which casts to 0.
AtInfinity(d, lo, hi) == IF d > 0 THEN hi ELSE IF d < 0 THEN lo ELSE Clamp(0, lo, hi)

\* clip_to_border: the smallest candidate t in [0, 1] (f32::INFINITY when there
\* is none), the point a + (b - a) * t rounded and clamped to the rectangle.
clip_to_border(a, b) ==
    LET dx == b[1] - a[1]
        dz == b[2] - a[2]
        ok == {t \in ClipCandidates(a, b) : t[1] >= 0 /\ t[1] <= t[2]}
        t == CHOOSE u \in ok : \A w \in ok : u[1] * w[2] <= w[1] * u[2]
    IN  IF ok = {}
        THEN <<AtInfinity(dx, MinX, MaxX), AtInfinity(dz, MinZ, MaxZ)>>
        ELSE <<Clamp(RoundDiv(a[1] * t[2] + dx * t[1], t[2]), MinX, MaxX),
               Clamp(RoundDiv(a[2] * t[2] + dz * t[1], t[2]), MinZ, MaxZ)>>

\* The idx closure of draw_along_border: position along the perimeter, clockwise
\* from the (min_x, min_z) corner.
BorderIdx(x, z) ==
    IF z = MinZ THEN x - MinX
    ELSE IF x = MaxX THEN (MaxX - MinX) + (z - MinZ)
    ELSE IF z = MaxZ THEN (MaxX - MinX) + (MaxZ - MinZ) + (MaxX - x)
    ELSE 2 * (MaxX - MinX) + (MaxZ - MinZ) + (MaxZ - z)

Perimeter == 2 * ((MaxX - MinX + 1) + (MaxZ - MinZ + 1)) - 4

\* One move of draw_along_border along the border.
BorderStep(from, clockwise) ==
    LET x == from[1]
        z == from[2]
    IN  IF clockwise
        THEN IF z = MinZ /\ x < MaxX THEN <<x + 1, z>>
             ELSE IF x = MaxX /\ z < MaxZ THEN <<x, z + 1>>
             ELSE IF z = MaxZ /\ x > MinX THEN <<x - 1, z>>
             ELSE IF x = MinX /\ z > MinZ THEN <<x, z - 1>>
             ELSE from
        ELSE IF z = MinZ /\ x > MinX THEN <<x - 1, z>>
             ELSE IF x = MinX /\ z < MaxZ THEN <<x, z + 1>>
             ELSE IF z = MaxZ /\ x < MaxX THEN <<x + 1, z>>
             ELSE IF x = MaxX /\ z > MinZ THEN <<x, z - 1>>
             ELSE from

\* The shorter of the two perimeter arcs, clockwise on a tie.
ArcClockwise(from, to) ==
    LET cw == (BorderIdx(to[1], to[2]) - BorderIdx(from[1], from[2]) + Perimeter) % Perimeter
        ccw == (BorderIdx(from[1], from[2]) - BorderIdx(to[1], to[2]) + Perimeter) % Perimeter
    IN  cw <= ccw

ArcSteps(from, to) ==
    LET cw == (BorderIdx(to[1], to[2]) - BorderIdx(from[1], from[2]) + Perimeter) % Perimeter
        ccw == (BorderIdx(from[1], from[2]) - BorderIdx(to[1], to[2]) + Perimeter) % Perimeter
    IN  IF cw <= ccw THEN cw ELSE ccw

\* draw_along_border: the cells set on the way from `from` to `to`
\* (at most steps + 1 iterations, stopping at `to`).
RECURSIVE DrawLoop(_, _, _, _)
DrawLoop(from, to, clockwise, left) ==
    IF left = 0 THEN {}
    ELSE IF from = to THEN {from}
    ELSE {from} \cup DrawLoop(BorderStep(from, clockwise), to, clockwise, left - 1)

draw_along_border(from, to) ==
    DrawLoop(from, to, ArcClockwise(from, to), ArcSteps(from, to) + 1)

\* The border_nodes of rasterize_and_seal: one clipped point for every edge
\* whose endpoints lie on different sides of the rectangle, in edge order.
RECURSIVE BorderNodes(_, _)
BorderNodes(line, i) ==
    IF i >= Len(line) THEN <<>>
    ELSE LET a == line[i]
             b == line[i + 1]
         IN  (IF in_bounds(a[1], a[2]) # in_bounds(b[1], b[2])
              THEN <<clip_to_border(a, b)>> ELSE <<>>)
             \o BorderNodes(line, i + 1)

\* The seal arcs drawn for the pairs (2k, 2k+1) of border nodes.
SealCells(nodes) ==
    UNION {draw_along_border(nodes[2 * k - 1], nodes[2 * k]) : k \in 1..(Len(nodes) \div 2)}

\* rasterize_and_seal: the barrier cells one line adds (grid cell = world cell
\* minus the rectangle's minimum corner). An odd number of border nodes draws
\* no seal.
rasterize_and_seal(line) ==
    LET traced == UNION {bresenham_line(line[i], line[i + 1]) : i \in 1..(Len(line) - 1)}
        kept == {c \in traced : in_bounds(c[1], c[2])}
        nodes == BorderNodes(line, 1)
    IN  IF Len(nodes) % 2 # 0 THEN kept ELSE kept \cup SealCells(nodes)

\* The barrier grid fill_from_barriers builds from all lines.
BarrierOf(lines) == UNION {rasterize_and_seal(Xz(lines[i])) : i \in 1..Len(lines)}

AllCells == (MinX..MaxX) \X (MinZ..MaxZ)

\* The seeds pushed on the queue: for every x the first and last row, then for
\* every z the first and last column, barrier cells left out.
RECURSIVE SeedsX(_, _)
SeedsX(barrier, x) ==
    IF x > MaxX THEN <<>>
    ELSE (IF <<x, MinZ>> \notin barrier THEN <<(<<x, MinZ>>)>> ELSE <<>>)
         \o (IF <<x, MaxZ>> \notin barrier THEN <<(<<x, MaxZ>>)>> ELSE <<>>)
         \o SeedsX(barrier, x + 1)

RECURSIVE SeedsZ(_, _)
SeedsZ(barrier, z) ==
    IF z > MaxZ THEN <<>>
    ELSE (IF <<MinX, z>> \notin barrier THEN <<(<<MinX, z>>)>> ELSE <<>>)
         \o (IF <<MaxX, z>> \notin barrier THEN <<(<<MaxX, z>>)>> ELSE <<>>)
         \o SeedsZ(barrier, z + 1)

\* The four neighbours pushed for a newly marked cell.
Neighbours(c) ==
    <<(<<c[1] - 1, c[2]>>), (<<c[1] + 1, c[2]>>), (<<c[1], c[2] - 1>>), (<<c[1], c[2] + 1>>)>>

\* The while-let loop over the queue: the cells marked outside. Popped entries
\* that are out of range, already marked or barrier are dropped; the first
\* other entry is marked and its neighbours are pushed.
RECURSIVE FloodFill(_, _, _)
FloodFill(barrier, q, outside) ==
    LET live == {i \in 1..Len(q) :
                    in_bounds(q[i][1], q[i][2]) /\ q[i] \notin outside /\ q[i] \notin barrier}
        i == SetMin(live)
    IN  IF live = {} THEN outside
        ELSE FloodFill(barrier, SubSeq(q, i + 1, Len(q)) \o Neighbours(q[i]),
                       outside \cup {q[i]})

OutsideOf(barrier) == FloodFill(barrier, SeedsX(barrier, MinX) \o SeedsZ(barrier, MinZ), {})

\* A selection that leaves the barrier cells out of account.
BarrierFillCells_NoBarrier(barrier, outside, fill_outside) ==
    IF fill_outside
    THEN {c \in AllCells : c \in outside}
    ELSE {c \in AllCells : c \notin outside}

\* The cells fill_from_barriers selects.
BarrierFillCells(barrier, outside, fill_outside) ==
    IF fill_outside
    THEN {c \in AllCells : c \in outside \/ c \in barrier}
    ELSE {c \in AllCells : c \notin outside /\ c \notin barrier}

\* --------------------------------------------------------- inverse flood fill
\* The per-cell test of inverse_floodfill_iterative on the cell rectangle
\* (x, z)-(x + 1, z + 1).
CellSelected(x, z, outers, inners, fill_outside) ==
    LET in_outer == \E i \in 1..Len(outers) : Intersects(outers[i], x, z, x + 1, z + 1)
        in_inner == \E i \in 1..Len(inners) : Intersects(inners[i], x, z, x + 1, z + 1)
    IN  \/ (fill_outside /\ (~in_outer \/ in_inner))
        \/ (~fill_outside /\ in_outer /\ ~in_inner)

\* inverse_floodfill_iterative: the cells of min.0..max.0 x min.1..max.1
\* (upper ends excluded) that pass the test.
inverse_floodfill_iterative(x0, z0, x1, z1, outers, inners, fill_outside) ==
    {c \in (x0..(x1 - 1)) \X (z0..(z1 - 1)) :
        CellSelected(c[1], c[2], outers, inners, fill_outside)}

\* A fill that includes the upper ends.
rect_fill_Inclusive(x0, x1, z0, z1) == (x0..x1) \X (z0..z1)

\* rect_fill: every cell of min_x..max_x x min_z..max_z (upper ends excluded).
rect_fill(x0, x1, z0, z1) == (x0..(x1 - 1)) \X (z0..(z1 - 1))

\* Quadrants that split the z range only.
Quadrants_KeepWidth(x0, z0, x1, z1) ==
    LET cz == TruncDiv(z0 + z1, 2)
    IN  <<(<<x0, x1, z0, cz>>), (<<x0, x1, z0, cz>>),
          (<<x0, x1, cz, z1>>), (<<x0, x1, cz, z1>>)>>

\* The quadrants array: <<min_x, max_x, min_z, max_z>> of each quadrant.
Quadrants(x0, z0, x1, z1) ==
    LET cx == TruncDiv(x0 + x1, 2)
        cz == TruncDiv(z0 + z1, 2)
    IN  <<(<<x0, cx, z0, cz>>), (<<cx, x1, z0, cz>>),
          (<<x0, cx, cz, z1>>), (<<cx, x1, cz, z1>>)>>

IntersectingPolys(polys, qd) ==
    LET Hit(poly) == Intersects(poly, qd[1], qd[3], qd[2], qd[4])
    IN  SelectSeq(polys, Hit)

\* inside: some outer contains the quadrant and no inner intersects it.
QuadrantInside(outers, inners, qd) ==
    /\ \E i \in 1..Len(outers) : Contains(outers[i], qd[1], qd[3], qd[2], qd[4])
    /\ Len(IntersectingPolys(inners, qd)) = 0

\* The quadrant is filled whole by rect_fill.
QuadrantFilled(outers, inners, qd, fill_outside) ==
    \/ (~fill_outside /\ QuadrantInside(outers, inners, qd))
    \/ /\ fill_outside
       /\ ~QuadrantInside(outers, inners, qd)
       /\ Len(IntersectingPolys(outers, qd)) = 0
       /\ Len(IntersectingPolys(inners, qd)) = 0

\* The quadrant is handed to a recursive call.
QuadrantRecursed(outers, inners, qd, fill_outside) ==
    /\ ~QuadrantFilled(outers, inners, qd, fill_outside)
    /\ (Len(IntersectingPolys(outers, qd)) > 0 \/ Len(IntersectingPolys(inners, qd)) > 0)

BelowThreshold(x0, z0, x1, z1) == (x1 - x0) * (z1 - z0) < IterativeThres

\* inverse_floodfill_recursive while the 25 s budget is never exceeded: the
\* cells it selects.
RECURSIVE RecursiveCells(_, _, _, _, _, _, _)
RecursiveCells(x0, z0, x1, z1, outers, inners, fill_outside) ==
    IF x0 > x1 \/ z0 > z1 THEN {}
    ELSE IF BelowThreshold(x0, z0, x1, z1)
    THEN inverse_floodfill_iterative(x0, z0, x1, z1, outers, inners, fill_outside)
    ELSE UNION {
           LET qd == Quadrants(x0, z0, x1, z1)[k]
           IN  IF QuadrantFilled(outers, inners, qd, fill_outside)
               THEN rect_fill(qd[1], qd[2], qd[3], qd[4])
               ELSE IF QuadrantRecursed(outers, inners, qd, fill_outside)
               THEN RecursiveCells(qd[1], qd[3], qd[2], qd[4],
                                   IntersectingPolys(outers, qd),
                                   IntersectingPolys(inners, qd), fill_outside)
               ELSE {}
           : k \in 1..4}

\* polygon.intersection(&rect.to_polygon()) with the vertices rounded, for the
\* rings of the catalogue: a ring inside the rectangle is returned as it is, an
\* axis-aligned rectangle is cut to its overlap, and a ring or overlap without
\* area yields no polygon.
IsAxisRect(poly) ==
    /\ Len(poly) = 5
    /\ poly[1] = poly[5]
    /\ Cardinality(PolyXs(poly)) = 2
    /\ Cardinality(PolyZs(poly)) = 2
    /\ \A i \in 1..4 : poly[i][1] = poly[i + 1][1] \/ poly[i][2] = poly[i + 1][2]

ClipToWorld(poly) ==
    LET x0 == Max2(SetMin(PolyXs(poly)), MinX)
        x1 == Min2(SetMax(PolyXs(poly)), MaxX)
        z0 == Max2(SetMin(PolyZs(poly)), MinZ)
        z1 == Min2(SetMax(PolyZs(poly)), MaxZ)
    IN  IF Len(poly) = 0 \/ Area2(poly) = 0 THEN <<>>
        ELSE IF \A i \in 1..Len(poly) : in_bounds(poly[i][1], poly[i][2]) THEN <<poly>>
        ELSE IF IsAxisRect(poly)
        THEN IF x0 < x1 /\ z0 < z1
             THEN <<(<<(<<x0, z0>>), (<<x1, z0>>), (<<x1, z1>>), (<<x0, z1>>), (<<x0, z0>>)>>)>>
             ELSE <<>>
        ELSE <<>>

\* The clipped_outers of one loop iteration.
RECURSIVE ClippedOuters(_, _)
ClippedOuters(loops, i) ==
    IF i > Len(loops) THEN <<>>
    ELSE ClipToWorld(Xz(loops[i])) \o ClippedOuters(loops, i + 1)

AllVertices(polys) == UNION {Range(polys[i]) : i \in 1..Len(polys)}

\* water_level of the polygon path: default_level 0 unless the ground has
\* elevation enabled, then min_level over the outer vertices (0 when there is
\* none).
PolygonWaterLevel(g, polys) ==
    IF g.present /\ g.elevation_enabled
    THEN LET m == min_level(g, {<<p[1] - MinX, p[2] - MinZ>> : p \in AllVertices(polys)})
         IN  IF m.some THEN m.val ELSE 0
    ELSE 0

\* water_level of the barrier path and of generate_coastlines.
BarrierWaterLevel(g) ==
    IF g.present /\ g.elevation_enabled THEN g.ground_level ELSE 0

\* ------------------------------------------------------- the bounded inputs
NodeAt(p) == Node(100 * (p[1] + 10) + (p[2] + 10), p[1], p[2])
Way(pts) == [i \in 1..Len(pts) |-> NodeAt(pts[i])]

SqInside == Way(<<(<<1, 1>>), (<<4, 1>>), (<<4, 4>>), (<<1, 4>>), (<<1, 1>>)>>)
SqCorner == Way(<<(<<0, 0>>), (<<3, 0>>), (<<3, 3>>), (<<0, 3>>), (<<0, 0>>)>>)
\* leaves the rectangle through the last column and comes back; starts inside
SqExit ==
    Way(<<(<<3, 2>>), (<<MaxX + 3, 2>>), (<<MaxX + 3, 5>>), (<<3, 5>>), (<<3, 2>>)>>)
\* the same ring, starting at a vertex outside the rectangle
SqEntry ==
    Way(<<(<<MaxX + 3, 2>>), (<<MaxX + 3, 5>>), (<<3, 5>>), (<<3, 2>>), (<<MaxX + 3, 2>>)>>)
SqCover ==
    Way(<<(<<-1, -1>>), (<<MaxX + 2, -1>>), (<<MaxX + 2, MaxZ + 2>>), (<<-1, MaxZ + 2>>),
          (<<-1, -1>>)>>)
Diamond == Way(<<(<<3, 1>>), (<<5, 3>>), (<<3, 5>>), (<<1, 3>>), (<<3, 1>>)>>)
HalfA == Way(<<(<<1, 1>>), (<<4, 1>>), (<<4, 4>>)>>)
HalfB == Way(<<(<<4, 4>>), (<<1, 4>>), (<<1, 1>>)>>)
Hole == Way(<<(<<2, 2>>), (<<3, 2>>), (<<3, 3>>), (<<2, 3>>), (<<2, 2>>)>>)
HoleHalf == Way(<<(<<2, 2>>), (<<3, 2>>), (<<3, 3>>)>>)
SingleNode == Way(<<(<<2, 2>>)>>)
EmptyWay == <<>>

NoTags == [k \in {} |-> ""]
Tag1(k, v) == [x \in {k} |-> v]
Tag2(k1, v1, k2, v2) == [x \in {k1, k2} |-> IF x = k1 THEN v1 ELSE v2]
Water == Tag1("natural", "water")
Layer(chars) == [x \in {"natural", "layer"} |-> IF x = "natural" THEN "water" ELSE chars]

TagSets ==
    {NoTags, Water, Tag1("waterway", "riverbank"), Tag1("water", "lake"),
     Tag1("water", "river"), Tag1("waterway", "river"), Tag1("natural", "wood"),
     Tag2("waterway", "river", "area", "yes"), Tag2("waterway", "river", "area", "no"),
     Tag1("layer", <<"1">>),
     Layer(<<"-", "1">>), Layer(<<"-", "0">>), Layer(<<"2">>), Layer(<<"-", "x">>),
     Layer(<<>>), Layer(<<"-", "1", "2">>)}

Outer(nodes) == [role |-> "outer", nodes |-> nodes]
Inner(nodes) == [role |-> "inner", nodes |-> nodes]
Relation(tags, members) == [kind |-> "relation", tags |-> tags, members |-> members]
WayElem(tags, nodes) == [kind |-> "way", tags |-> tags, nodes |-> nodes]

MemberLists ==
    {<<>>,
     <<Outer(SqInside)>>, <<Outer(SqCorner)>>, <<Outer(SqExit)>>, <<Outer(SqCover)>>,
     <<Outer(Diamond)>>,
     <<Outer(HalfA), Outer(HalfB)>>, <<Outer(HalfA)>>,
     <<Outer(SqCover), Inner(Hole)>>, <<Outer(SqInside), Inner(HoleHalf)>>,
     <<Outer(SqCorner), Outer(Diamond)>>,
     <<Outer(EmptyWay)>>, <<Outer(SqInside), Inner(EmptyWay)>>, <<Outer(SingleNode)>>}

Relations ==
    {Relation(Water, m) : m \in MemberLists}
    \cup {Relation(t, <<Outer(SqInside)>>) : t \in TagSets}

WayNodes == {SqInside, SqCorner, SqExit, SqCover, Diamond, HalfA, SingleNode, EmptyWay}

Ways ==
    {WayElem(Water, n) : n \in WayNodes} \cup {WayElem(t, SqInside) : t \in TagSets}

LineAcross == Way(<<(<<-1, 3>>), (<<MaxX + 1, 3>>)>>)

Coastlines ==
    {<<>>, <<SqInside>>, <<SqExit>>, <<SqEntry>>, <<LineAcross>>, <<HalfA, HalfB>>,
     <<SqCorner, Diamond>>}

\* Blocks placed before the water generator runs (terrain pre-fill).
DirtColumn == {<<2, 0, 2>>, <<2, 1, 2>>, <<5, 0, 5>>}
Configs ==
    {[ground |-> g, dirt |-> {}] : g \in Grounds}
    \cup {[ground |-> new_flat(2), dirt |-> DirtColumn]}

\* -------------------------------------------------------------------- state
VARIABLES
    ground,     \* the editor's Ground (NoGround when unset)
    water,      \* positions <<x, y, z>> holding WATER
    dirt,       \* positions holding another block
    biomes,     \* positions whose biome was set
    phase,      \* "idle" before a generator call, "fill" inside the recursion, "done"
    op,         \* the generator called: "relation", "way", "coastline"
    elem,       \* its argument
    path,       \* "gate", "empty", "barrier" or "poly": the branch it took
    level,      \* the water_level in use
    written,    \* positions the call has written so far
    selected,   \* cells <<x, z>> the call selected for filling
    stack,      \* pending calls of inverse_floodfill_recursive, innermost last
    pending,    \* outer ways the relation loop has still to process
    innersV,    \* the inners vector (merged in place by the loop)
    expired,    \* start_time.elapsed() has passed 25 s
    events,     \* which branches of the recursion ran
    panicked,   \* the call panicked
    barrier,    \* the barrier grid of fill_from_barriers
    outside     \* its outside grid

waterVars == <<ground, water, dirt, biomes, phase, op, elem, path, level, written, selected,
               stack, pending, innersV, expired, events, panicked, barrier, outside>>

\* The process-wide biome registry (src/src/biome_registry.rs) and its callers.
VARIABLES
    regHead,    \* Registry.biomes: the entries pushed one by one, in order
    regFill,    \* the number of generated biomes pushed after regHead in one batch
    regTail,    \* the entries pushed after that batch
    regIds,     \* Registry.ids for the biomes of regHead and regTail
    poisoned,   \* a thread panicked while it held the Mutex
    log         \* the calls made so far, in the order they took the lock

registryVars == <<regHead, regFill, regTail, regIds, poisoned, log>>

\* One ElevationData and the last pair of cells read from it.
VARIABLES
    elevGrid,   \* the ElevationData fetch_elevation_data returned, NoGrid before
    elevRead    \* <<a, b, height_at(a), height_at(b)>> of the last two reads

elevationVars == <<elevGrid, elevRead>>

\* One machine's tile cache and the runs of fetch_elevation_data on it.
VARIABLES
    tileCache,  \* per tile, the file in ./arnis-tile-cache: "absent", "good", "bad"
    tileIdx,    \* the tile the loop of the current run is at
    attempts,   \* per tile, what the current run did with it, in order
    fetchResult, \* "running", "ok" or "err"
    healed      \* the tiles whose undecodable file a download has replaced by a decodable one

fetchVars == <<tileCache, tileIdx, attempts, fetchResult, healed>>

\* A WorldEditor's chunks as the block writers and to_section see them.
VARIABLES
    chunks,     \* <<cx, cz, section-Y>> -> the section's 4096 block entries
    everSet,    \* world positions <<x, y, z>> a write has reached
    nWrites,    \* the number of write calls made
    returned    \* what the last call returned

sectionVars == <<chunks, everSet, nWrites, returned>>

\* One call of a function that has no state of its own.
VARIABLES
    callArgs,   \* the arguments of the call
    callResult  \* what it returned, NotCalled before it ran

callVars == <<callArgs, callResult>>

otherVars == <<registryVars, elevationVars, fetchVars, sectionVars, callVars>>

notRegistry == <<waterVars, elevationVars, fetchVars, sectionVars, callVars>>
notElevation == <<waterVars, registryVars, fetchVars, sectionVars, callVars>>
notFetch == <<waterVars, registryVars, elevationVars, sectionVars, callVars>>
notSection == <<waterVars, registryVars, elevationVars, fetchVars, callVars>>
notCall == <<waterVars, registryVars, elevationVars, fetchVars, sectionVars>>

vars == <<waterVars, otherVars>>

\* ---------------------------------------------------------- biome registry
\* A Biome is its name; equality and hashing are by name. The generated names
\* of a batch are numbered, n = 0 for every other biome.
Biome(name) == [name |-> name, n |-> 0]
Generated(k) == [name |-> "minecraft:generated", n |-> k]

PLAINS == Biome("minecraft:plains")
FOREST == Biome("minecraft:forest")
RIVER == Biome("minecraft:river")
BEACH == Biome("minecraft:beach")
DESERT == Biome("minecraft:desert")
OCEAN == Biome("minecraft:ocean")
JUNGLE == Biome("minecraft:jungle")
SWAMP == Biome("minecraft:swamp")
TAIGA == Biome("minecraft:taiga")
SAVANNA == Biome("minecraft:savanna")
MOUNTAINS == Biome("minecraft:mountains")
SNOWY_TUNDRA == Biome("minecraft:snowy_tundra")
SNOWY_TAIGA == Biome("minecraft:snowy_taiga")
MUSHROOM_FIELDS == Biome("minecraft:mushroom_fields")

\* The biomes the registry tests obtain with Biome::from_str.
CustomTest == Biome("minecraft:__biome_registry_test")
CustomOther == Biome("minecraft:__biome_registry_other_test")

\* The vector REGISTRY is built from.
RegistryBiomes ==
    <<PLAINS, FOREST, RIVER, BEACH, DESERT, OCEAN, JUNGLE, SWAMP, TAIGA, SAVANNA, MOUNTAINS>>

\* KNOWN_BIOMES of biomes.rs, in its order.
KNOWN_BIOMES ==
    <<PLAINS, FOREST, RIVER, BEACH, DESERT, OCEAN, JUNGLE, SWAMP, TAIGA, SAVANNA, MOUNTAINS,
      SNOWY_TUNDRA, SNOWY_TAIGA, MUSHROOM_FIELDS>>

\* `as u16` keeps the low 16 bits.
U16 == 65536
AsU16(n) == n % U16

\* The number of generated biomes one batch of id calls registers.
BulkCount == 65524
\* The number of single calls a run makes.
MaxLog == 3

Threads == {1, 2}
IdArgs == {PLAINS, RIVER, SNOWY_TAIGA, CustomTest, CustomOther}
BiomeArgs == {0, Len(RegistryBiomes), U16 - 1}

\* registry.biomes.len() and registry.biomes.get(i)
VecLen == Len(regHead) + regFill + Len(regTail)
VecHas(i) == i >= 0 /\ i < VecLen
VecGet(i) ==
    IF i < Len(regHead) THEN regHead[i + 1]
    ELSE IF i < Len(regHead) + regFill THEN Generated(i - Len(regHead) + 1)
    ELSE regTail[i - Len(regHead) - regFill + 1]

\* A map that never finds a biome.
IdsHas_Never(b) == FALSE

\* registry.ids.get(&biome)
IdsHas(b) == IF b.n > 0 THEN b.n <= regFill ELSE b \in DOMAIN regIds
IdsGet(b) == IF b.n > 0 THEN AsU16(Len(regHead) + b.n - 1) ELSE regIds[b]

\* The biomes the registry knows.
Registered == DOMAIN regIds \cup {Generated(k) : k \in 1..regFill}

\* Lazy::new of REGISTRY: ids maps every biome of the vector to its index.
RegistryInit ==
    /\ regHead = RegistryBiomes
    /\ regFill = 0
    /\ regTail = <<>>
    /\ regIds = [b \in Range(RegistryBiomes) |->
                    (CHOOSE i \in 1..Len(RegistryBiomes) : RegistryBiomes[i] = b) - 1]
    /\ poisoned = FALSE
    /\ log = <<>>

NoBiome == Biome("")

\* One entry of the log: the call, what it returned (ok = FALSE: it panicked)
\* and the vector length before and after it.
Call(t, fn, arg, k, ok, idv, bv, fresh, before, after) ==
    [t |-> t, fn |-> fn, arg |-> arg, k |-> k, ok |-> ok, idv |-> idv, bv |-> bv,
     fresh |-> fresh, before |-> before, after |-> after]

\* REGISTRY.lock().unwrap() on a poisoned Mutex panics; nothing else happens.
LockPanics(t, fn, arg, k) ==
    /\ log' = Append(log, Call(t, fn, arg, k, FALSE, -1, NoBiome, FALSE, VecLen, VecLen))
    /\ UNCHANGED <<regHead, regFill, regTail, regIds, poisoned>>

\* id(biome): one call, atomic under the lock.
IdCall ==
    /\ Len(log) < MaxLog
    /\ \E t \in Threads, b \in IdArgs :
         IF poisoned THEN LockPanics(t, "id", b, -1)
         ELSE IF IdsHas(b)
         THEN /\ log' = Append(log, Call(t, "id", b, -1, TRUE, IdsGet(b), NoBiome, FALSE,
                                          VecLen, VecLen))
              /\ UNCHANGED <<regHead, regFill, regTail, regIds, poisoned>>
         ELSE /\ IF regFill = 0
                 THEN regHead' = Append(regHead, b) /\ UNCHANGED regTail
                 ELSE regTail' = Append(regTail, b) /\ UNCHANGED regHead
              /\ regIds' = regIds @@ (b :> AsU16(VecLen))
              /\ log' = Append(log, Call(t, "id", b, -1, TRUE, AsU16(VecLen), NoBiome, TRUE,
                                          VecLen, VecLen + 1))
              /\ UNCHANGED <<regFill, poisoned>>
    /\ UNCHANGED notRegistry

\* BulkCount calls of id, one after the other, each with a biome of a name not
\* seen before (Biome::from_str of a generated name): each pushes its biome
\* and inserts len as u16.
IdBatch ==
    /\ ~poisoned
    /\ regFill = 0
    /\ regFill' = BulkCount
    /\ UNCHANGED <<regHead, regTail, regIds, poisoned, log>>
    /\ UNCHANGED notRegistry

\* biome(id): `expect` panics on an index past the end while the guard is
\* alive, which poisons the Mutex.
BiomeCall ==
    /\ Len(log) < MaxLog
    /\ \E t \in Threads, k \in BiomeArgs :
         IF poisoned THEN LockPanics(t, "biome", NoBiome, k)
         ELSE IF VecHas(k)
         THEN /\ log' = Append(log, Call(t, "biome", NoBiome, k, TRUE, -1, VecGet(k), FALSE,
                                          VecLen, VecLen))
              /\ UNCHANGED <<regHead, regFill, regTail, regIds, poisoned>>
         ELSE /\ poisoned' = TRUE
              /\ log' = Append(log, Call(t, "biome", NoBiome, k, FALSE, -1, NoBiome, FALSE,
                                          VecLen, VecLen))
              /\ UNCHANGED <<regHead, regFill, regTail, regIds>>
    /\ UNCHANGED notRegistry

\* The process ends and a new one starts with a registry of its own.
RegistryRestart ==
    /\ Len(log) = MaxLog
    /\ regHead' = RegistryBiomes
    /\ regFill' = 0
    /\ regTail' = <<>>
    /\ regIds' = [b \in Range(RegistryBiomes) |->
                     (CHOOSE i \in 1..Len(RegistryBiomes) : RegistryBiomes[i] = b) - 1]
    /\ poisoned' = FALSE
    /\ log' = <<>>
    /\ UNCHANGED notRegistry

RegistryNext ==
    \/ IdCall
    \/ IdBatch
    \/ BiomeCall
    \/ RegistryRestart

\* What a stretch of straight-line code leaves behind.
Outcome(pth, pan, cells, writes, lvl, stk, pend, inn, bar, outs) ==
    [path |-> pth, panic |-> pan, cells |-> cells, writes |-> writes, level |-> lvl,
     stack |-> stk, pending |-> pend, inners |-> inn, barrier |-> bar, outside |-> outs]

Returned(pth) == Outcome(pth, FALSE, {}, {}, 0, <<>>, <<>>, <<>>, {}, {})
Panicked(pth) == Outcome(pth, TRUE, {}, {}, 0, <<>>, <<>>, <<>>, {}, {})

\* fill_from_barriers
fill_from_barriers(g, lines, fill_outside, water_level) ==
    LET b == BarrierOf(lines)
        o == OutsideOf(b)
        cells == BarrierFillCells(b, o, fill_outside)
    IN  Outcome("barrier", FALSE, cells, ColumnWrites(g, cells, water_level), water_level,
                <<>>, <<>>, <<>>, b, o)

Frame(x0, z0, x1, z1, outers, inners) ==
    [x0 |-> x0, z0 |-> z0, x1 |-> x1, z1 |-> z1, outers |-> outers, inners |-> inners,
     q |-> 0]

\* One iteration of `for (i, outer_nodes) in outers.iter().enumerate()` up to
\* the call of inverse_floodfill; "end" when no outer is left.
RelationIteration(g, pend, inn, lines) ==
    LET m == merge_loopy_loops(<<Head(pend)>>)
        v == verify_loopy_loops(m.loops)
        mi == merge_loopy_loops(inn)
        vi == verify_loopy_loops(mi.loops)
        clipped == ClippedOuters(m.loops, 1)
        lvl == PolygonWaterLevel(g, clipped)
        inners_xz == [i \in 1..Len(mi.loops) |-> Xz(mi.loops[i])]
    IN  IF Len(pend) = 0 THEN Returned("end")
        ELSE IF m.panic \/ v.panic THEN Panicked("end")
        ELSE IF ~v.valid THEN fill_from_barriers(g, lines, FALSE, BarrierWaterLevel(g))
        ELSE IF mi.panic \/ vi.panic THEN Panicked("end")
        ELSE IF ~vi.valid THEN fill_from_barriers(g, lines, FALSE, BarrierWaterLevel(g))
        ELSE Outcome("poly", FALSE, {}, {}, lvl,
                     <<Frame(MinX, MinZ, MaxX, MaxZ, clipped, inners_xz)>>,
                     Tail(pend), mi.loops, {}, {})

MembersOf(rel, role) ==
    LET Is(m) == m.role = role
        ms == SelectSeq(rel.members, Is)
    IN  [i \in 1..Len(ms) |-> ms[i].nodes]

\* generate_water_areas_internal(editor, element, false) up to its first call of
\* inverse_floodfill.
RelationStart(g, rel) ==
    LET outers == MembersOf(rel, "outer")
        inners == MembersOf(rel, "inner")
        all_lines == outers \o inners
    IN  IF ~IsWaterRelation(rel.tags) THEN Returned("gate")
        ELSE IF LayerNegative(rel.tags) THEN Returned("gate")
        ELSE IF \E i \in 1..Len(outers) : IsOpen(outers[i])
        THEN fill_from_barriers(g, all_lines, FALSE, BarrierWaterLevel(g))
        ELSE IF Len(outers) = 0 THEN Returned("empty")
        ELSE RelationIteration(g, outers, inners, all_lines)

\* generate_water_area_from_way_internal(editor, way, false) up to its call of
\* inverse_floodfill.
WayStart(g, way) ==
    IF ~IsWaterWay(way.tags) THEN Returned("gate")
    ELSE IF LayerNegative(way.tags) THEN Returned("gate")
    ELSE IF Len(way.nodes) = 0 THEN Returned("empty")
    ELSE IF IsOpen(way.nodes)
    THEN fill_from_barriers(g, <<way.nodes>>, FALSE, BarrierWaterLevel(g))
    ELSE Outcome("poly", FALSE, {}, {}, PolygonWaterLevel(g, <<Xz(way.nodes)>>),
                 <<Frame(MinX, MinZ, MaxX, MaxZ, <<Xz(way.nodes)>>, <<>>)>>,
                 <<>>, <<>>, {}, {})

\* generate_coastlines
CoastlineStart(g, ways) ==
    IF Len(ways) = 0 THEN Returned("empty")
    ELSE fill_from_barriers(g, ways, TRUE, BarrierWaterLevel(g))

\* The editor and the bookkeeping after an outcome o; more is what the step
\* itself selected at the level in use before o.
Apply(o, moreCells, moreWrites, evs) ==
    LET landed == {w \in o.writes \cup moreWrites : Lands(w)}
    IN  /\ water' = water \cup landed
        /\ dirt' = dirt \ landed
        /\ biomes' = biomes \cup landed
        /\ written' = written \cup landed
        /\ selected' = selected \cup o.cells \cup moreCells
        /\ path' = IF o.path = "end" THEN path ELSE o.path
        /\ panicked' = o.panic
        /\ level' = IF o.path = "end" THEN level ELSE o.level
        /\ stack' = o.stack
        /\ pending' = o.pending
        /\ innersV' = o.inners
        /\ barrier' = o.barrier
        /\ outside' = o.outside
        /\ events' = events \cup evs
        /\ phase' = IF o.panic \/ Len(o.stack) = 0 THEN "done" ELSE "fill"

\* ------------------------------------------------------ fetch_elevation_data
\* The grid of the bounded runs is GridW x GridH cells.
GridW == 2
GridH == 2
GridCells == (0..(GridW - 1)) \X (0..(GridH - 1))

I16_MIN == -32768
I16_MAX == 32767
\* i16 subtraction in a release build wraps.
WrapI16(n) == ((n + 32768) % 65536) - 32768

\* Lines 174-209 of fetch_elevation_data: cells never written (i16::MIN) become
\* 0, then min, max and height_range = max - min in i16, then scaled_range =
\* height_range * height_scale, cut down to 0.9 * (MAX_Y - ground_level) when it
\* exceeds that. height_scale = BASE_HEIGHT_SCALE * sqrt(scale) is the rational
\* hs_num / hs_den.
ElevationOf(raw, ground_level, hs_num, hs_den) ==
    LET heights == [c \in GridCells |-> IF raw[c] = I16_MIN THEN 0 ELSE raw[c]]
        min_height == SetMin({heights[c] : c \in GridCells})
        max_height == SetMax({heights[c] : c \in GridCells})
        height_range == WrapI16(max_height - min_height)
        over == height_range * hs_num * 10 > (MAX_Y - ground_level) * 9 * hs_den
    IN  [heights |-> heights, width |-> GridW, height |-> GridH,
         min_height |-> min_height, height_range |-> height_range,
         ground_level |-> ground_level,
         scaled_num |-> IF over THEN (MAX_Y - ground_level) * 9 ELSE height_range * hs_num,
         scaled_den |-> IF over THEN 10 ELSE hs_den]

\* max_height - min_height does not fit i16: a debug build panics there.
RangeOverflows(raw) ==
    LET heights == [c \in GridCells |-> IF raw[c] = I16_MIN THEN 0 ELSE raw[c]]
    IN  SetMax({heights[c] : c \in GridCells}) - SetMin({heights[c] : c \in GridCells})
          > I16_MAX

\* Raw grids of the bounded runs: flat ones (one of them never written), a
\* gentle and a steep slope, one unwritten cell, and the two ends of the
\* Terrarium range.
RawGrids ==
    {[c \in GridCells |-> v] : v \in {0, 40, I16_MIN}}
    \cup {[c \in GridCells |-> 10 * (c[1] + c[2])],
          [c \in GridCells |-> 1000 * c[1]],
          [c \in GridCells |-> IF c = <<0, 0>> THEN I16_MIN ELSE 25]}
\* The cell value decoded from a Terrarium pixel <<R, G, B>>:
\* (R * 256 + G + B / 256 - 32768).round() as i16, round going away from zero
\* on a half and the cast saturating.
TerrariumHeight(pixel) ==
    LET n == pixel[1] * 65536 + pixel[2] * 256 + pixel[3] - 32768 * 256
        rounded == IF n >= 0 THEN (n + 128) \div 256 ELSE -((128 - n) \div 256)
    IN  Max2(I16_MIN, Min2(I16_MAX, rounded))
\* A tile with a pixel of -16384 m next to pixels of 16384 m.
WideGrid ==
    [c \in GridCells |-> TerrariumHeight(IF c = <<0, 0>> THEN <<64, 0, 0>> ELSE <<192, 0, 0>>)]

GroundLevels == {-62, 0, 300, MAX_Y}

\* The calls of the bounded runs: [raw, ground_level, hs_num, hs_den]; scale 1
\* and 4 give height_scale 7/10 and 7/5, scale 100/49 gives 1.
FetchCalls ==
    {[raw |-> r, ground_level |-> g, hs_num |-> 7, hs_den |-> d] :
        r \in RawGrids, g \in GroundLevels, d \in {10, 5}}
    \cup {[raw |-> WideGrid, ground_level |-> g, hs_num |-> 1, hs_den |-> 1] :
            g \in GroundLevels}

NoGrid == [width |-> 0]
NoRead == <<>>

ElevationInit ==
    /\ elevGrid = NoGrid
    /\ elevRead = NoRead

\* fetch_elevation_data returns Ok(ElevationData), or panics on the i16
\* overflow when the build checks overflow.
FetchElevationData ==
    /\ \E call \in FetchCalls :
         \/ elevGrid' = ElevationOf(call.raw, call.ground_level, call.hs_num, call.hs_den)
         \/ RangeOverflows(call.raw) /\ elevGrid' = NoGrid
    /\ elevRead' = NoRead
    /\ UNCHANGED notElevation

\* height_at on two cells of the grid.
HeightAt ==
    /\ elevGrid # NoGrid
    /\ \E a \in GridCells, b \in GridCells :
         elevRead' = <<a, b, height_at(elevGrid, a[1], a[2]), height_at(elevGrid, b[1], b[2])>>
    /\ UNCHANGED elevGrid
    /\ UNCHANGED notElevation

ElevationNext ==
    \/ FetchElevationData
    \/ HeightAt

\* ------------------------------------------------- the tile loop and its cache
NTiles == 3
Tiles == 1..NTiles

FetchInit ==
    /\ tileCache \in [Tiles -> {"absent", "good", "bad"}]
    /\ tileIdx = 1
    /\ attempts = [i \in Tiles |-> <<>>]
    /\ fetchResult = "running"
    /\ healed = {}

\* The loop moves on to the next tile, or the function returns Ok.
Advance(i) ==
    /\ tileIdx' = i + 1
    /\ fetchResult' = IF i = NTiles THEN "ok" ELSE "running"

\* download_tile without the write of line 88: the cache keeps its file.
DownloadTile_NoWrite(i, before, resp) ==
    IF resp = "good"
    THEN /\ attempts' = [attempts EXCEPT ![i] = before \o <<"dl-good">>]
         /\ healed' = IF before = <<"cache-bad">> THEN healed \cup {i} ELSE healed
         /\ Advance(i)
         /\ UNCHANGED tileCache
    ELSE /\ attempts' = [attempts EXCEPT ![i] =
                           before \o <<IF resp = "bad" THEN "dl-bad" ELSE "dl-neterror">>]
         /\ fetchResult' = "err"
         /\ UNCHANGED <<tileCache, tileIdx, healed>>

\* download_tile followed by `?`. resp is what the request brings: "neterror"
\* (send or status error), or bytes that are "good" or "bad". The bytes are
\* written to the cache before they are decoded; any Err ends the run.
DownloadTile(i, before, resp) ==
    IF resp = "neterror"
    THEN /\ attempts' = [attempts EXCEPT ![i] = before \o <<"dl-neterror">>]
         /\ fetchResult' = "err"
         /\ UNCHANGED <<tileCache, tileIdx, healed>>
    ELSE IF resp = "good"
    THEN /\ tileCache' = [tileCache EXCEPT ![i] = "good"]
         /\ attempts' = [attempts EXCEPT ![i] = before \o <<"dl-good">>]
         /\ healed' = IF before = <<"cache-bad">> THEN healed \cup {i} ELSE healed
         /\ Advance(i)
    ELSE /\ tileCache' = [tileCache EXCEPT ![i] = "bad"]
         /\ attempts' = [attempts EXCEPT ![i] = before \o <<"dl-bad">>]
         /\ fetchResult' = "err"
         /\ UNCHANGED <<tileIdx, healed>>

\* One iteration of `for (tile_x, tile_y) in &tiles` up to rgb_img.
FetchTile ==
    /\ fetchResult = "running"
    /\ LET i == tileIdx
       IN  IF tileCache[i] = "good"
           THEN /\ attempts' = [attempts EXCEPT ![i] = <<"cache-good">>]
                /\ Advance(i)
                /\ UNCHANGED <<tileCache, healed>>
           ELSE IF tileCache[i] = "bad"
           THEN \E resp \in {"neterror", "good", "bad"} :
                    DownloadTile(i, <<"cache-bad">>, resp)
           ELSE \E resp \in {"neterror", "good", "bad"} :
                    DownloadTile(i, <<>>, resp)
    /\ UNCHANGED notFetch

\* The program is run again on the same cache directory.
NewRun ==
    /\ fetchResult # "running"
    /\ tileIdx' = 1
    /\ attempts' = [i \in Tiles |-> <<>>]
    /\ fetchResult' = "running"
    /\ UNCHANGED <<tileCache, healed>>
    /\ UNCHANGED notFetch

FetchNext ==
    \/ FetchTile
    \/ NewRun

\* The editor before a generator call.
Fresh(cfg) ==
    /\ ground = cfg.ground
    /\ dirt = cfg.dirt
    /\ water = {}
    /\ biomes = {}
    /\ phase = "idle"
    /\ op = "none"
    /\ elem = <<>>
    /\ path = "none"
    /\ level = 0
    /\ written = {}
    /\ selected = {}
    /\ stack = <<>>
    /\ pending = <<>>
    /\ innersV = <<>>
    /\ expired = FALSE
    /\ events = {}
    /\ panicked = FALSE
    /\ barrier = {}
    /\ outside = {}

\* A tile cache with nothing in it.
NoTiles ==
    /\ tileCache = [i \in Tiles |-> "absent"]
    /\ tileIdx = 1
    /\ attempts = [i \in Tiles |-> <<>>]
    /\ fetchResult = "running"
    /\ healed = {}

\* ------------------------------------------------ sections and their NBT
\* world_editor.rs is not part of the sources at hand; this part follows the
\* specification's "Section", "Operations" and "Section storage and
\* serialization", and the decoder of tests/world_editor/serialization.rs.

\* The function f as a table of its values (computed once, not at each use).
Tabulated(f) == f @@ <<>>

\* Option<T>.
None == <<>>
Some(v) == <<v>>

\* Block handles, by their namespaced names.
AIR == "minecraft:air"
STONE == "minecraft:stone"
OAK_PLANKS == "minecraft:oak_planks"
SIGN == "minecraft:oak_sign"
OAK_TRAPDOOR == "minecraft:oak_trapdoor"

\* The 15 blocks without properties of to_section_serialization_round_trip.
TestBlocks ==
    << "minecraft:acacia_planks", "minecraft:andesite", "minecraft:birch_leaves",
       "minecraft:birch_log", "minecraft:black_concrete", "minecraft:blackstone",
       "minecraft:blue_orchid", "minecraft:blue_terracotta", "minecraft:bricks",
       "minecraft:cauldron", "minecraft:chiseled_stone_bricks",
       "minecraft:cobblestone_wall", "minecraft:cobblestone",
       "minecraft:polished_blackstone_bricks", "minecraft:cracked_stone_bricks" >>

\* BlockWithProperties: a block and an optional compound of key/value pairs.
NoProperties == [some |-> FALSE, map |-> {}]
Compound(pairs) == [some |-> TRUE, map |-> pairs]
BlockWithProperties(block, properties) == [name |-> block, properties |-> properties]
Simple(block) == BlockWithProperties(block, NoProperties)

SignRotation4 == BlockWithProperties(SIGN, Compound({<<"rotation", "4">>}))
SignRotation8 == BlockWithProperties(SIGN, Compound({<<"rotation", "8">>}))
TrapdoorBottom == BlockWithProperties(OAK_TRAPDOOR, Compound({<<"half", "bottom">>}))

\* The block registry: the entry behind each block ID. ID 0 is the reserved
\* air ID; an entry written with properties has an ID of its own, also when
\* its name and properties equal those of another ID (PlanksNoProperties).
PlanksNoProperties == BlockWithProperties(OAK_PLANKS, NoProperties)
BlockTable ==
    <<Simple(AIR), Simple(STONE), Simple(OAK_PLANKS)>>
    \o [k \in 1..Len(TestBlocks) |-> Simple(TestBlocks[k])]
    \o <<Simple(SIGN), Simple(OAK_TRAPDOOR)>>
    \o <<SignRotation4, SignRotation8, TrapdoorBottom, PlanksNoProperties>>
AIR_ID == 0
EntryOf(id) == BlockTable[id + 1]
PlainIds == {id \in 0..(Len(BlockTable) - 1) : id <= Len(TestBlocks) + 4}
IdOfBlock(block) == CHOOSE id \in PlainIds : EntryOf(id) = Simple(block)
IdOfEntry(bwp) ==
    CHOOSE id \in (0..(Len(BlockTable) - 1)) \ PlainIds : EntryOf(id) = bwp

\* The cells of a section and the width of a word of the packed array.
SectionCells == 4096
WordBits == 64
CellIndexes == 0..(SectionCells - 1)

\* SectionToModify::index: block index = y*256 + z*16 + x.
index(x, y, z) == y * 256 + z * 16 + x

\* SectionToModify::default: all air.
DefaultSection == Tabulated([i \in CellIndexes |-> AIR_ID])

\* SectionToModify::set_block, with a variant that leaves a non-air cell alone.
set_block_KeepExisting(section, x, y, z, block) ==
    IF section[index(x, y, z)] = AIR_ID
    THEN [section EXCEPT ![index(x, y, z)] = IdOfBlock(block)]
    ELSE section

\* SectionToModify::set_block.
set_block(section, x, y, z, block) ==
    [section EXCEPT ![index(x, y, z)] = IdOfBlock(block)]

\* SectionToModify::set_block_with_properties.
set_block_with_properties(section, x, y, z, bwp) ==
    [section EXCEPT ![index(x, y, z)] = IdOfEntry(bwp)]

\* SectionToModify::get_block: the handle, without the properties.
get_block(section, x, y, z) == Some(EntryOf(section[index(x, y, z)]).name)

\* The distinct block IDs of a section.
DistinctIds(section) == {section[i] : i \in CellIndexes}

\* The IDs whose entry is value-equal to the given one.
IdsOf(entry) == {id \in 0..(Len(BlockTable) - 1) : EntryOf(id) = entry}

\* The first of the cells, in index order, that holds an ID of the entry.
FirstIndex(section, cells, entry) ==
    LET ids == IdsOf(entry)
    IN SetMin({i \in cells : section[i] \in ids})

\* The entries of S in the order of first[e], the cell first holding e.
RECURSIVE InOrderOfFirst(_, _)
InOrderOfFirst(first, S) ==
    IF S = {} THEN <<>>
    ELSE LET e0 == CHOOSE e \in S : \A f \in S : first[e] <= first[f]
         IN <<e0>> \o InOrderOfFirst(first, S \ {e0})

\* Steps 1 and 3: the palette in the order first encountered, air at index 0
\* if any air cell remains, value-equal (Name, Properties) merged.
Palette(section) ==
    LET distinct == {EntryOf(id) : id \in DistinctIds(section)}
        others == distinct \ {Simple(AIR)}
        airIds == IdsOf(Simple(AIR))
        solid == {i \in CellIndexes : section[i] \notin airIds}
        first == Tabulated([e \in others |-> FirstIndex(section, solid, e)])
    IN IF Simple(AIR) \in distinct
       THEN <<Simple(AIR)>> \o InOrderOfFirst(first, others)
       ELSE InOrderOfFirst(first, others)

Pow2(n) == 2 ^ n

\* ceil(log2(k)) for k >= 1.
RECURSIVE CeilLog2From(_, _)
CeilLog2From(k, n) == IF Pow2(n) >= k THEN n ELSE CeilLog2From(k, n + 1)
CeilLog2(k) == CeilLog2From(k, 0)

\* The width without the floor of 4.
BitsPerEntry_NoFloor(k) == Max2(1, CeilLog2(k))

\* Step 2: bits_per_entry = max(4, ceil(log2(palette.len()))).
BitsPerEntry(k) == Max2(4, CeilLog2(k))

\* Bit b of the non-negative integer n.
BitOf(n, b) == (n \div Pow2(b)) % 2 = 1

\* Step 2: the packed array, each 64-bit word as the set of its one bits
\* (bit 0 the least significant). Entries fill a word from the least
\* significant bit up; an entry that would cross the word boundary starts the
\* next word, so that a word holds 64 / bits entries and the rest is zero.
PackedData(section, palette, bits) ==
    LET at == Tabulated([id \in DistinctIds(section) |->
                  (CHOOSE k \in 1..Len(palette) : palette[k] = EntryOf(id)) - 1])
        perWord == WordBits \div bits
        nWords == (SectionCells + perWord - 1) \div perWord
        cell(w, s) == (w - 1) * perWord + s
        ones == Tabulated([k \in 0..(Len(palette) - 1) |->
                              {c \in 0..(bits - 1) : BitOf(k, c)}])
    IN [w \in 1..nWords |->
           UNION {{s * bits + b : b \in ones[at[section[cell(w, s)]]]} :
                  s \in {t \in 0..(perWord - 1) : cell(w, t) < SectionCells}}]

\* SectionToModify::to_section, block states only.
to_section(section, y) ==
    LET palette == Palette(section)
    IN [y |-> y,
        palette |-> palette,
        data |-> PackedData(section, palette, BitsPerEntry(Len(palette)))]

\* The decoder of the serialization test. bits_per_block as it derives it
\* from the length of the array.
bits_per_block(data) == (Len(data) * WordBits) \div SectionCells

\* (cur >> cur_idx) & mask.
RECURSIVE ShiftMask(_, _, _)
ShiftMask(word, cur_idx, n) ==
    IF n = 0 THEN 0
    ELSE ShiftMask(word, cur_idx, n - 1)
         + (IF cur_idx + n - 1 \in word THEN Pow2(n - 1) ELSE 0)

\* indices[i] of that decoder: it moves to the next word when
\* cur_idx + bits_per_block > 64, so that each word gives 64 / bits entries;
\* -1 when the iterator is exhausted (unwrap panics).
DecodedIndex(data, bits, i) ==
    LET perWord == WordBits \div bits
        w == i \div perWord + 1
    IN IF w > Len(data) THEN -1
       ELSE ShiftMask(data[w], (i % perWord) * bits, bits)

\* The section the serialization test builds.
RECURSIVE WithTestBlocks(_, _)
WithTestBlocks(section, n) ==
    IF n = 0 THEN section
    ELSE set_block(WithTestBlocks(section, n - 1), n - 1, 0, 0, TestBlocks[n])

SixteenSection == WithTestBlocks(DefaultSection, Len(TestBlocks))
TestSection ==
    set_block_with_properties(
        set_block_with_properties(SixteenSection, 0, 1, 0, SignRotation4),
        1, 1, 0, TrapdoorBottom)
StoneSection == Tabulated([i \in CellIndexes |-> IdOfBlock(STONE)])

\* The world rectangle and the supported Y range (sections -4..=19).
WorldRect == [min_x |-> 0, max_x |-> 31, min_z |-> 0, max_z |-> 15]
InBounds(x, y, z) ==
    /\ WorldRect.min_x <= x /\ x <= WorldRect.max_x
    /\ WorldRect.min_z <= z /\ z <= WorldRect.max_z
    /\ MIN_Y <= y /\ y <= MAX_Y

\* (cx, cz) = (x >> 4, z >> 4) and the section-Y.
SectionKey(x, y, z) == <<x \div 16, z \div 16, y \div 16>>

\* The section a position falls in, a default one if none exists yet.
SectionAt(ch, x, y, z) ==
    IF SectionKey(x, y, z) \in DOMAIN ch THEN ch[SectionKey(x, y, z)]
    ELSE DefaultSection

\* The current block of a position, for the gating of a write.
CurrentBlock(ch, x, y, z) ==
    EntryOf(SectionAt(ch, x, y, z)[index(x % 16, y % 16, z % 16)]).name

\* The gating of a write: outside the rectangle or the Y range, not in
\* overwrite_only, or in skip_if_in: drop.
Accepted(ch, x, y, z, overwrite_only, skip_if_in) ==
    /\ InBounds(x, y, z)
    /\ overwrite_only = None \/ CurrentBlock(ch, x, y, z) \in overwrite_only[1]
    /\ skip_if_in = None \/ CurrentBlock(ch, x, y, z) \notin skip_if_in[1]

\* chunks with one section replaced or created.
WithSection(ch, key, section) ==
    [k \in DOMAIN ch \cup {key} |-> IF k = key THEN section ELSE ch[k]]

\* WorldEditor::set_block_absolute.
set_block_absolute(ch, block, x, y, z, overwrite_only, skip_if_in) ==
    IF Accepted(ch, x, y, z, overwrite_only, skip_if_in)
    THEN WithSection(ch, SectionKey(x, y, z),
                     set_block(SectionAt(ch, x, y, z), x % 16, y % 16, z % 16, block))
    ELSE ch

\* WorldEditor::set_block_with_properties_absolute.
set_block_with_properties_absolute(ch, bwp, x, y, z, overwrite_only, skip_if_in) ==
    IF Accepted(ch, x, y, z, overwrite_only, skip_if_in)
    THEN WithSection(ch, SectionKey(x, y, z),
                     set_block_with_properties(SectionAt(ch, x, y, z),
                                               x % 16, y % 16, z % 16, bwp))
    ELSE ch

\* WorldEditor::get_block_absolute: None if never written or outside bounds.
get_block_absolute(ch, set, x, y, z) ==
    IF ~InBounds(x, y, z) \/ <<x, y, z>> \notin set THEN None
    ELSE get_block(ch[SectionKey(x, y, z)], x % 16, y % 16, z % 16)

\* The positions written so far, after a write call.
Reached(ch, set, x, y, z, overwrite_only, skip_if_in) ==
    IF Accepted(ch, x, y, z, overwrite_only, skip_if_in) THEN set \cup {<<x, y, z>>}
    ELSE set

\* The inputs of the calls.
MaxWrites == 2
Positions ==
    { <<12, 64, 0>>, <<17, 64, 1>>, <<15, -64, 15>>, <<32, 64, 1>>, <<1, 320, 1>> }
Blocks == {AIR, OAK_PLANKS}
BlocksWithProperties == {SignRotation8, PlanksNoProperties}
Gatings == { <<None, None>>, <<Some({AIR}), None>>, <<None, Some({AIR})>> }

\* The world positions of a section's cells.
CellsOf(key) ==
    {<<key[1] * 16 + x, key[3] * 16 + y, key[2] * 16 + z>> :
        <<x, y, z>> \in (0..15) \X (0..15) \X (0..15)}

\* The worlds a run starts from: nothing written, the serialization test's
\* section with and without its two blocks with properties, a section with
\* no air left.
TestKey == <<0, 0, 4>>
WrittenOf(section) ==
    {p \in CellsOf(TestKey) :
        section[index(p[1] % 16, p[2] % 16, p[3] % 16)] # AIR_ID}
StartWorlds ==
    { [chunks |-> <<>>, everSet |-> {}],
      [chunks |-> (TestKey :> SixteenSection), everSet |-> WrittenOf(SixteenSection)],
      [chunks |-> (TestKey :> TestSection), everSet |-> WrittenOf(TestSection)],
      [chunks |-> (TestKey :> StoneSection), everSet |-> CellsOf(TestKey)] }

NoReturn == [kind |-> "unit"]

\* No call of a stateless function is under way.
NotCalled == [done |-> FALSE]
NoCalls ==
    /\ callArgs = <<>>
    /\ callResult = NotCalled

\* An editor nobody has written to.
NoSections ==
    /\ chunks = <<>>
    /\ everSet = {}
    /\ nWrites = 0
    /\ returned = NoReturn

SectionInit ==
    /\ \E w \in StartWorlds : chunks = w.chunks /\ everSet = w.everSet
    /\ nWrites = 0
    /\ returned = NoReturn

\* editor.set_block_absolute(block, x, y, z, overwrite_only, skip_if_in)
SetBlockAbsolute ==
    /\ nWrites < MaxWrites
    /\ \E block \in Blocks, p \in Positions, g \in Gatings :
        /\ chunks' = set_block_absolute(chunks, block, p[1], p[2], p[3], g[1], g[2])
        /\ everSet' = Reached(chunks, everSet, p[1], p[2], p[3], g[1], g[2])
    /\ nWrites' = nWrites + 1
    /\ returned' = NoReturn
    /\ UNCHANGED notSection

\* editor.set_block_with_properties_absolute(bwp, x, y, z, overwrite_only, skip_if_in)
SetBlockWithPropertiesAbsolute ==
    /\ nWrites < MaxWrites
    /\ \E bwp \in BlocksWithProperties, p \in Positions, g \in Gatings :
        /\ chunks' = set_block_with_properties_absolute(chunks, bwp, p[1], p[2], p[3],
                                                        g[1], g[2])
        /\ everSet' = Reached(chunks, everSet, p[1], p[2], p[3], g[1], g[2])
    /\ nWrites' = nWrites + 1
    /\ returned' = NoReturn
    /\ UNCHANGED notSection

\* editor.get_block_absolute(x, y, z). A call that only reads is taken in
\* the state a write (or the start) left: a second read in a row would see
\* the same editor.
GetBlockAbsolute ==
    /\ returned = NoReturn
    /\ \E p \in Positions :
        returned' = [kind |-> "block", at |-> p,
                     value |-> get_block_absolute(chunks, everSet, p[1], p[2], p[3])]
    /\ UNCHANGED <<chunks, everSet, nWrites>>
    /\ UNCHANGED notSection

\* section.to_section(y) for a section of the editor, as save() calls it.
ToSection ==
    /\ returned = NoReturn
    /\ \E key \in DOMAIN chunks :
        returned' = [kind |-> "section", of |-> key,
                     value |-> to_section(chunks[key], key[3])]
    /\ UNCHANGED <<chunks, everSet, nWrites>>
    /\ UNCHANGED notSection

SectionNext ==
    \/ SetBlockAbsolute
    \/ SetBlockWithPropertiesAbsolute
    \/ GetBlockAbsolute
    \/ ToSection

\* WorldEditor::new, set_ground and the pre-fill of a run.
Init ==
    /\ \E cfg \in Configs : Fresh(cfg)
    /\ RegistryInit
    /\ ElevationInit
    /\ NoTiles
    /\ NoSections
    /\ NoCalls

\* The next run starts from a new editor.
NewEditor ==
    /\ phase = "done"
    /\ \E cfg \in Configs :
         /\ ground' = cfg.ground
         /\ dirt' = cfg.dirt
    /\ water' = {}
    /\ biomes' = {}
    /\ phase' = "idle"
    /\ op' = "none"
    /\ elem' = <<>>
    /\ path' = "none"
    /\ level' = 0
    /\ written' = {}
    /\ selected' = {}
    /\ stack' = <<>>
    /\ pending' = <<>>
    /\ innersV' = <<>>
    /\ expired' = FALSE
    /\ events' = {}
    /\ panicked' = FALSE
    /\ barrier' = {}
    /\ outside' = {}
    /\ UNCHANGED otherVars

\* generate_water_areas
GenerateWaterAreas ==
    /\ phase = "idle"
    /\ \E rel \in Relations :
         /\ op' = "relation"
         /\ elem' = rel
         /\ Apply(RelationStart(ground, rel), {}, {}, {})
    /\ UNCHANGED <<ground, expired>>
    /\ UNCHANGED otherVars

\* generate_water_area_from_way
GenerateWaterAreaFromWay ==
    /\ phase = "idle"
    /\ \E way \in Ways :
         /\ op' = "way"
         /\ elem' = way
         /\ Apply(WayStart(ground, way), {}, {}, {})
    /\ UNCHANGED <<ground, expired>>
    /\ UNCHANGED otherVars

\* generate_coastlines
GenerateCoastlines ==
    /\ phase = "idle"
    /\ \E ways \in Coastlines :
         /\ op' = "coastline"
         /\ elem' = [kind |-> "coastline", ways |-> ways]
         /\ Apply(CoastlineStart(ground, ways), {}, {}, {})
    /\ UNCHANGED <<ground, expired>>
    /\ UNCHANGED otherVars

\* The 25 s budget runs out. The clock is read only on entry to
\* inverse_floodfill_recursive, so the change is placed before an entry.
Expire ==
    /\ phase = "fill"
    /\ ~expired
    /\ stack[Len(stack)].q = 0
    /\ expired' = TRUE
    /\ UNCHANGED <<ground, water, dirt, biomes, phase, op, elem, path, level, written,
                   selected, stack, pending, innersV, events, panicked, barrier, outside>>
    /\ UNCHANGED otherVars

Pop(stk) == SubSeq(stk, 1, Len(stk) - 1)

\* A recursion that gives its rectangle up when the budget has expired.
OnExpiry_GiveUp(f) == {}

OnExpiry(f) ==
    inverse_floodfill_iterative(f.x0, f.z0, f.x1, f.z1, f.outers, f.inners, FALSE)

\* What the call on top of the stack does next: [cells, stack, event].
\* q = 0 is the entry of inverse_floodfill_recursive; q = k is quadrant k of its
\* loop.
CallStep(stk, exp) ==
    LET f == stk[Len(stk)]
        qd == Quadrants(f.x0, f.z0, f.x1, f.z1)[f.q]
        rest == IF f.q = 4 THEN Pop(stk) ELSE [stk EXCEPT ![Len(stk)].q = f.q + 1]
    IN  IF f.q = 0
        THEN IF exp
             THEN [cells |-> OnExpiry(f), stack |-> Pop(stk), event |-> "fallback"]
             ELSE IF f.x0 > f.x1 \/ f.z0 > f.z1
             THEN [cells |-> {}, stack |-> Pop(stk), event |-> "degenerate"]
             ELSE IF BelowThreshold(f.x0, f.z0, f.x1, f.z1)
             THEN [cells |-> inverse_floodfill_iterative(f.x0, f.z0, f.x1, f.z1,
                                                         f.outers, f.inners, FALSE),
                   stack |-> Pop(stk), event |-> "iterative"]
             ELSE [cells |-> {}, stack |-> [stk EXCEPT ![Len(stk)].q = 1],
                   event |-> "subdivide"]
        ELSE IF QuadrantFilled(f.outers, f.inners, qd, FALSE)
        THEN [cells |-> rect_fill(qd[1], qd[2], qd[3], qd[4]), stack |-> rest,
              event |-> "rect_fill"]
        ELSE IF QuadrantRecursed(f.outers, f.inners, qd, FALSE)
        THEN [cells |-> {},
              stack |-> Append(rest, Frame(qd[1], qd[3], qd[2], qd[4],
                                           IntersectingPolys(f.outers, qd),
                                           IntersectingPolys(f.inners, qd))),
              event |-> "recurse"]
        ELSE [cells |-> {}, stack |-> rest, event |-> "skip"]

\* One step of inverse_floodfill_recursive; when the outermost call returns,
\* the relation loop goes on with its next outer and the way generator returns.
Step ==
    /\ phase = "fill"
    /\ LET r == CallStep(stack, expired)
           w == ColumnWrites(ground, r.cells, level)
       IN  IF Len(r.stack) > 0
           THEN Apply(Outcome(path, FALSE, {}, {}, level, r.stack, pending, innersV,
                              barrier, outside),
                      r.cells, w, {r.event})
           ELSE Apply(RelationIteration(ground, pending, innersV, <<>>),
                      r.cells, w, {r.event})
    /\ UNCHANGED <<ground, op, elem, expired>>
    /\ UNCHANGED otherVars

Next ==
    \/ NewEditor
    \/ GenerateWaterAreas
    \/ GenerateWaterAreaFromWay
    \/ GenerateCoastlines
    \/ Expire
    \/ Step

Spec == Init /\ [][Next]_vars

\* The registry on its own, under an editor that is not used.
RegistryStart ==
    /\ Fresh([ground |-> NoGround, dirt |-> {}])
    /\ RegistryInit
    /\ ElevationInit
    /\ NoTiles
    /\ NoSections
    /\ NoCalls
RegistrySpec == RegistryStart /\ [][RegistryNext]_vars

\* fetch_elevation_data's grid and height_at on it.
ElevationSpec == RegistryStart /\ [][ElevationNext]_vars

\* The tile loop of fetch_elevation_data over any state of the cache.
FetchStart ==
    /\ Fresh([ground |-> NoGround, dirt |-> {}])
    /\ RegistryInit
    /\ ElevationInit
    /\ FetchInit
    /\ NoSections
    /\ NoCalls
FetchSpec == FetchStart /\ [][FetchNext]_vars

\* The block writers, get_block_absolute and to_section on an editor.
SectionStart ==
    /\ Fresh([ground |-> NoGround, dirt |-> {}])
    /\ RegistryInit
    /\ ElevationInit
    /\ NoTiles
    /\ SectionInit
    /\ NoCalls
SectionSpec == SectionStart /\ [][SectionNext]_vars

\* Everything but the call variables at rest.
Idle ==
    /\ Fresh([ground |-> NoGround, dirt |-> {}])
    /\ RegistryInit
    /\ ElevationInit
    /\ NoTiles
    /\ NoSections

\* --------------------------------------------------------- Ground::level
\* Ground::new_enabled around the ElevationData fetch_elevation_data returned.
new_enabled(data) ==
    [present |-> TRUE, elevation_enabled |-> TRUE, has_data |-> TRUE,
     ground_level |-> data.ground_level, data |-> data]

\* A grid whose cells all differ: raw height x + RampW * z.
RampW == 4
RampH == 3
RampHeights == [c \in (0..(RampW - 1)) \X (0..(RampH - 1)) |-> c[1] + RampW * c[2]]

\* The grounds Ground::level is called on: flat ones, the grids of
\* fetch_elevation_data for two of its calls, and grids of distinct cells.
LevelGrounds ==
    {new_flat(-2), new_flat(70)}
    \cup {new_enabled(ElevationOf(call.raw, call.ground_level, call.hs_num, call.hs_den)) :
            call \in {c \in FetchCalls : c.ground_level = 0 /\ c.hs_den = 10
                                          /\ c.raw[<<1, 0>>] \in {10, 1000}}}
    \cup {from_heights(0, RampW, RampH, RampHeights),
          from_heights(5, RampW, 1, [c \in (0..(RampW - 1)) \X {0} |-> c[1]])}
LevelPoints == (-2..(RampW + 1)) \X (-2..(RampH + 1))

GroundStart ==
    /\ Idle
    /\ callArgs \in {[ground |-> g, coord |-> p] : g \in LevelGrounds, p \in LevelPoints}
    /\ callResult = NotCalled

\* ground.level(coord)
Level ==
    /\ callResult = NotCalled
    /\ callResult' = [done |-> TRUE,
                      value |-> GroundLevelAt(callArgs.ground, callArgs.coord[1],
                                              callArgs.coord[2])]
    /\ UNCHANGED callArgs
    /\ UNCHANGED notCall

GroundNext == Level
GroundSpec == GroundStart /\ [][GroundNext]_vars

\* ------------------------------------------------------- biome_from_tags
Mapping(value, biome) == [value |-> value, biome |-> biome]

LANDUSE_MAPPINGS ==
    << Mapping("forest", FOREST), Mapping("grass", PLAINS), Mapping("meadow", PLAINS),
       Mapping("greenfield", PLAINS), Mapping("orchard", FOREST),
       Mapping("farmland", PLAINS), Mapping("military", PLAINS),
       Mapping("industrial", PLAINS), Mapping("railway", PLAINS),
       Mapping("commercial", PLAINS), Mapping("residential", PLAINS),
       Mapping("cemetery", PLAINS), Mapping("traffic_island", PLAINS),
       Mapping("construction", PLAINS), Mapping("village_green", PLAINS) >>

NATURAL_MAPPINGS ==
    << Mapping("beach", BEACH), Mapping("coastline", BEACH), Mapping("wetland", SWAMP),
       Mapping("swamp", SWAMP), Mapping("marsh", SWAMP), Mapping("wood", FOREST),
       Mapping("scrub", SAVANNA), Mapping("grassland", SAVANNA), Mapping("heath", SAVANNA),
       Mapping("taiga", TAIGA), Mapping("fell", MOUNTAINS), Mapping("bare_rock", MOUNTAINS),
       Mapping("scree", MOUNTAINS), Mapping("rock", MOUNTAINS), Mapping("sand", DESERT),
       Mapping("glacier", SNOWY_TUNDRA), Mapping("ice", SNOWY_TUNDRA),
       Mapping("tree", FOREST), Mapping("woodland", FOREST) >>

LEISURE_MAPPINGS ==
    << Mapping("park", PLAINS), Mapping("nature_reserve", FOREST),
       Mapping("pitch", PLAINS), Mapping("golf_course", PLAINS), Mapping("garden", PLAINS) >>

\* parse_known_biome: the first entry of KNOWN_BIOMES with that name.
parse_known_biome(name) ==
    LET hits == {i \in 1..Len(KNOWN_BIOMES) : KNOWN_BIOMES[i].name = name}
    IN  IF hits = {} THEN None ELSE Some(KNOWN_BIOMES[SetMin(hits)])

\* lookup: the biome of the first mapping with that value.
lookup(table, value) ==
    LET hits == {i \in 1..Len(table) : table[i].value = value}
    IN  IF hits = {} THEN None ELSE Some(table[SetMin(hits)].biome)

\* biome_from_water_related
biome_from_water_related(tags) ==
    IF Has(tags, "water")
    THEN IF tags["water"] \in {"river", "canal", "stream"} THEN Some(RIVER)
         ELSE IF tags["water"] \in {"lake", "reservoir", "lagoon", "pond"} THEN Some(OCEAN)
         ELSE IF tags["water"] \in {"sea", "ocean"} THEN Some(OCEAN)
         ELSE IF tags["water"] \in {"wetland", "swamp"} THEN Some(SWAMP)
         ELSE Some(RIVER)
    ELSE IF Has(tags, "waterway")
    THEN IF tags["waterway"] \in {"river", "canal", "stream"} THEN Some(RIVER)
         ELSE IF tags["waterway"] = "drain" THEN Some(SWAMP)
         ELSE Some(RIVER)
    ELSE None

\* biome_from_tags
biome_from_tags(tags) ==
    IF Has(tags, "biome") /\ parse_known_biome(tags["biome"]) # None
    THEN parse_known_biome(tags["biome"])
    ELSE IF TagIs(tags, "natural", "water") /\ biome_from_water_related(tags) # None
    THEN biome_from_water_related(tags)
    ELSE IF Has(tags, "natural") /\ lookup(NATURAL_MAPPINGS, tags["natural"]) # None
    THEN lookup(NATURAL_MAPPINGS, tags["natural"])
    ELSE IF biome_from_water_related(tags) # None
    THEN biome_from_water_related(tags)
    ELSE IF Has(tags, "landuse") /\ lookup(LANDUSE_MAPPINGS, tags["landuse"]) # None
    THEN lookup(LANDUSE_MAPPINGS, tags["landuse"])
    ELSE IF Has(tags, "leisure") /\ lookup(LEISURE_MAPPINGS, tags["leisure"]) # None
    THEN lookup(LEISURE_MAPPINGS, tags["leisure"])
    ELSE Some(PLAINS)

\* The tag maps of the bounded runs: per key, absent ("") or one of a few
\* values, known and unknown ones.
Absent == ""
TagChoices ==
    [biome : {Absent, "minecraft:desert", "minecraft:nowhere"},
     natural : {Absent, "water", "beach", "cliff"},
     water : {Absent, "river", "canal", "stream", "lake", "reservoir", "lagoon", "pond",
              "sea", "ocean", "wetland", "swamp", "basin"},
     waterway : {Absent, "river", "canal", "stream", "drain", "lake", "wetland", "dam"},
     landuse : {Absent, "forest", "quarry"},
     leisure : {Absent, "nature_reserve", "marina"}]
TagKeys == {"biome", "natural", "water", "waterway", "landuse", "leisure"}
TagsOf(choice) == [k \in {j \in TagKeys : choice[j] # Absent} |-> choice[k]]

BiomeStart ==
    /\ Idle
    /\ callArgs \in {[tags |-> TagsOf(c)] : c \in TagChoices}
    /\ callResult = NotCalled

\* biome_from_tags(&tags)
BiomeFromTags ==
    /\ callResult = NotCalled
    /\ callResult' = [done |-> TRUE, value |-> biome_from_tags(callArgs.tags)]
    /\ UNCHANGED callArgs
    /\ UNCHANGED notCall

BiomeNext == BiomeFromTags
BiomeSpec == BiomeStart /\ [][BiomeNext]_vars

\* ---------------------------------------------------------------- railways
\* bresenham_line(x1, 0, z1, x2, 0, z2) as the Vec it returns: the points of
\* the line in the order of the driving axis, from a to b.
LinePoints(a, b) ==
    LET line == bresenham_line(a, b)
        dx == Abs(b[1] - a[1])
        dz == Abs(b[2] - a[2])
        at(k) == CHOOSE p \in line :
                    IF dx >= dz THEN p[1] = a[1] + k * StepSign(a[1], b[1])
                    ELSE p[2] = a[2] + k * StepSign(a[2], b[2])
    IN  [k \in 1..(Max2(dx, dz) + 1) |-> <<at(k - 1)[1], 0, at(k - 1)[2]>>]

\* Two points <<x, y, z>> are diagonally adjacent.
Diagonal(p, q) == Abs(q[1] - p[1]) = 1 /\ Abs(q[3] - p[3]) = 1

\* An intermediate that is the next point again.
Intermediate_Next(points, i) == points[i + 1]

\* The intermediate point smooth_diagonal_rails puts after points[i].
Intermediate(points, i) ==
    LET x1 == points[i][1]
        y1 == points[i][2]
        z1 == points[i][3]
        x2 == points[i + 1][1]
        z2 == points[i + 1][3]
    IN  IF i > 1
        THEN IF points[i - 1][1] = x1 THEN <<x1, y1, z2>> ELSE <<x2, y1, z1>>
        ELSE IF i + 2 <= Len(points)
        THEN IF points[i + 2][1] = x2 THEN <<x2, y1, z1>> ELSE <<x1, y1, z2>>
        ELSE <<x2, y1, z1>>

\* smooth_diagonal_rails: the loop from index i on.
RECURSIVE SmoothFrom(_, _)
SmoothFrom(points, i) ==
    IF i > Len(points) THEN <<>>
    ELSE <<points[i]>>
         \o (IF i + 1 <= Len(points) /\ Diagonal(points[i], points[i + 1])
             THEN <<Intermediate(points, i)>> ELSE <<>>)
         \o SmoothFrom(points, i + 1)
smooth_diagonal_rails(points) == SmoothFrom(points, 1)

\* generate_railways: path_points after the segments up to node i.
RECURSIVE PathPoints(_, _)
PathPoints(nodes, i) ==
    IF i < 2 THEN <<>>
    ELSE LET before == PathPoints(nodes, i - 1)
             smoothed == smooth_diagonal_rails(LinePoints(nodes[i - 1], nodes[i]))
         IN  IF before = <<>> THEN smoothed ELSE before \o Tail(smoothed)

\* WorldEditor::get_absolute_y: Ground.level(x, z) + rel_y.
get_absolute_y(g, x, rel_y, z) == GroundLevelAt(g, x, z) + rel_y

\* The direction from p to q on the x and z axes.
Dir(p, q) == <<q[1] - p[1], q[3] - p[3]>>

\* The corner-levelling loop from index j on (j counts from 1).
RECURSIVE LevelCorners(_, _, _)
LevelCorners(pts, heights, j) ==
    IF j > Len(pts) - 1 THEN heights
    ELSE IF Dir(pts[j - 1], pts[j]) # Dir(pts[j], pts[j + 1])
    THEN LET cur == heights[j]
             h1 == IF heights[j + 1] > cur THEN [heights EXCEPT ![j + 1] = cur] ELSE heights
             h2 == IF h1[j - 1] > cur THEN [h1 EXCEPT ![j - 1] = cur] ELSE h1
         IN  LevelCorners(pts, h2, j + 1)
    ELSE LevelCorners(pts, heights, j + 1)

\* ascending_shape_from_direction
ascending_shape_from_direction(dx, dz) ==
    IF <<dx, dz>> = <<1, 0>> THEN Some("ascending_east")
    ELSE IF <<dx, dz>> = <<-1, 0>> THEN Some("ascending_west")
    ELSE IF <<dx, dz>> = <<0, 1>> THEN Some("ascending_south")
    ELSE IF <<dx, dz>> = <<0, -1>> THEN Some("ascending_north")
    ELSE None

\* The match of determine_rail_shape on the two positions; prev and next are
\* None or Some(<<<<x, z>>, y>>).
FlatShape(x, z, prev, next) ==
    IF prev # None /\ next # None
    THEN LET px == prev[1][1][1]
             pz == prev[1][1][2]
             nx == next[1][1][1]
             nz == next[1][1][2]
             pair == {<<px - x, pz - z>>, <<nx - x, nz - z>>}
         IN  IF px = nx THEN "north_south"
             ELSE IF pz = nz THEN "east_west"
             ELSE IF pair = {<<-1, 0>>, <<0, -1>>} THEN "north_west"
             ELSE IF pair = {<<1, 0>>, <<0, -1>>} THEN "north_east"
             ELSE IF pair = {<<-1, 0>>, <<0, 1>>} THEN "south_west"
             ELSE IF pair = {<<1, 0>>, <<0, 1>>} THEN "south_east"
             ELSE IF Abs(px - x) > Abs(pz - z) THEN "east_west"
             ELSE "north_south"
    ELSE IF prev # None \/ next # None
    THEN LET one == IF prev # None THEN prev[1][1] ELSE next[1][1]
         IN  IF one[1] = x THEN "north_south"
             ELSE IF one[2] = z THEN "east_west"
             ELSE "north_south"
    ELSE "north_south"

\* determine_rail_shape
determine_rail_shape(current, current_y, prev, next) ==
    LET x == current[1]
        z == current[2]
        up(n) == IF n # None /\ n[1][2] > current_y
                 THEN ascending_shape_from_direction(n[1][1][1] - x, n[1][1][2] - z)
                 ELSE None
    IN  IF up(prev) # None THEN up(prev)[1]
        ELSE IF up(next) # None THEN up(next)[1]
        ELSE FlatShape(x, z, prev, next)

\* The rail generate_railways places at index idx (from 1): its foundation at
\* base_y, the rail block at base_y + 1 and its shape; rail_counter = idx - 1.
RailAt(pts, heights, idx) ==
    LET base_y == heights[idx]
        prev == IF idx > 1
                THEN Some(<<<<pts[idx - 1][1], pts[idx - 1][3]>>, heights[idx - 1] + 1>>)
                ELSE None
        next == IF idx + 1 <= Len(pts)
                THEN Some(<<<<pts[idx + 1][1], pts[idx + 1][3]>>, heights[idx + 1] + 1>>)
                ELSE None
        shape == determine_rail_shape(<<pts[idx][1], pts[idx][3]>>, base_y + 1, prev, next)
        powered == (idx - 1) % 8 = 7 /\ shape \in {"north_south", "east_west",
                      "ascending_east", "ascending_west", "ascending_north", "ascending_south"}
    IN  [x |-> pts[idx][1], z |-> pts[idx][3], base_y |-> base_y, shape |-> shape,
         rail |-> IF powered THEN "powered_rail" ELSE "rail",
         foundation |-> IF powered THEN "redstone_block"
                        ELSE IF (idx - 1) % 4 = 0 THEN "oak_log" ELSE "gravel"]

SkippedRailways == {"proposed", "abandoned", "subway", "construction", "razed", "turntable"}

\* generate_railways(editor, element), the editor holding ground g: the path,
\* the base heights after the corner pass and the rails placed.
NoRails == [path_points |-> <<>>, base_heights |-> <<>>, rails |-> <<>>]
generate_railways(g, element) ==
    IF \/ ~Has(element.tags, "railway")
       \/ element.tags["railway"] \in SkippedRailways
       \/ TagIs(element.tags, "subway", "yes")
       \/ TagIs(element.tags, "tunnel", "yes")
    THEN NoRails
    ELSE LET pts == PathPoints(element.nodes, Len(element.nodes))
             before == [k \in 1..Len(pts) |-> get_absolute_y(g, pts[k][1], 0, pts[k][3])]
             heights == LevelCorners(pts, before, 2)
         IN  IF pts = <<>> THEN NoRails
             ELSE [path_points |-> pts, base_heights |-> heights,
                   rails |-> [k \in 1..Len(pts) |-> RailAt(pts, heights, k)]]

\* Polylines of up to MaxPoints points from the origin whose steps are at
\* most 1 on each axis (the step <<0, 0>> repeats a point).
MaxPoints == 4
RECURSIVE Polylines(_)
Polylines(n) ==
    IF n = 0 THEN {<<>>}
    ELSE IF n = 1 THEN {<<>>, <<<<0, 0, 0>>>>}
    ELSE Polylines(n - 1)
         \cup {Append(l, <<l[Len(l)][1] + d[1], 0, l[Len(l)][3] + d[2]>>) :
                 l \in {m \in Polylines(n - 1) : Len(m) = n - 1},
                 d \in (-1..1) \X (-1..1)}

\* The ways and terrains of the bounded runs.
RailNodes == {<<0, 0>>, <<3, 3>>, <<3, 0>>, <<1, 3>>, <<2, 1>>}
RailTags ==
    { ("railway" :> "rail"), ("railway" :> "abandoned"), ("highway" :> "pts"),
      ("railway" :> "rail" @@ "tunnel" :> "yes"), ("railway" :> "tram" @@ "subway" :> "yes") }
RailWays ==
    {[tags |-> t, nodes |-> n] :
        t \in RailTags,
        n \in {<<a>> : a \in RailNodes}
               \cup {<<a, b>> : a \in RailNodes, b \in RailNodes}
               \cup {<<a, b, c>> : a \in {<<0, 0>>}, b \in RailNodes, c \in RailNodes}}
RailGrounds ==
    { new_flat(0),
      from_heights(0, MaxX + 1, MaxZ + 1, StepHeights),
      from_heights(0, MaxX + 1, MaxZ + 1,
                   [c \in (0..MaxX) \X (0..MaxZ) |-> IF c[2] < 2 THEN 4 ELSE 2]),
      from_heights(0, MaxX + 1, MaxZ + 1, [c \in (0..MaxX) \X (0..MaxZ) |-> c[1] + c[2]]) }

RailStart ==
    /\ Idle
    /\ callArgs \in {[fn |-> "smooth", points |-> l] : l \in Polylines(MaxPoints)}
                    \cup {[fn |-> "generate", ground |-> g, element |-> w] :
                            g \in RailGrounds, w \in RailWays}
    /\ callResult = NotCalled

\* smooth_diagonal_rails(&points)
SmoothDiagonalRails ==
    /\ callResult = NotCalled
    /\ callArgs.fn = "smooth"
    /\ callResult' = [done |-> TRUE, value |-> smooth_diagonal_rails(callArgs.points)]
    /\ UNCHANGED callArgs
    /\ UNCHANGED notCall

\* generate_railways(editor, element)
GenerateRailways ==
    /\ callResult = NotCalled
    /\ callArgs.fn = "generate"
    /\ callResult' = [done |-> TRUE,
                      value |-> generate_railways(callArgs.ground, callArgs.element)]
    /\ UNCHANGED callArgs
    /\ UNCHANGED notCall

RailNext ==
    \/ SmoothDiagonalRails
    \/ GenerateRailways
RailSpec == RailStart /\ [][RailNext]_vars

\* ------------------------------------------------------------ merging ways
\* The number of times merge_loopy_loops is entered for loops, itself included.
RECURSIVE MergeCalls(_)
MergeCalls(loops) ==
    LET r == MergePass(loops, 0, {}, <<>>)
    IN  IF r.panic \/ Len(r.merged) = 0 THEN 1
        ELSE 1 + MergeCalls(RemoveIndices(loops, r.removed, 1) \o r.merged)

\* A way through the nodes with the given IDs.
WayOf(ids) == [k \in 1..Len(ids) |-> Node(ids[k], ids[k], 0)]

\* The non-empty ways of the bounded runs: open, closed and single-node ways.
MergeWays ==
    { WayOf(ids) : ids \in { <<1, 2>>, <<2, 3>>, <<3, 4>>, <<4, 1>>, <<2, 1>>, <<1, 3>>,
                              <<1, 2, 3>>, <<3, 2, 4>>, <<4, 2, 4, 1>>,
                              <<1>>, <<1, 2, 1>>, <<2, 4, 3, 2>> } }
MaxWays == 4
RECURSIVE WayLists(_)
WayLists(n) ==
    IF n = 0 THEN {<<>>}
    ELSE WayLists(n - 1)
         \cup {Append(l, w) : l \in {m \in WayLists(n - 1) : Len(m) = n - 1}, w \in MergeWays}

MergeStart ==
    /\ Idle
    /\ callArgs \in {[fn |-> "merge", loops |-> l] : l \in WayLists(MaxWays)}
    /\ callResult = NotCalled

\* merge_loopy_loops(&mut loops)
MergeLoopyLoops ==
    /\ callResult = NotCalled
    /\ callResult' = [done |-> TRUE, value |-> merge_loopy_loops(callArgs.loops),
                      calls |-> MergeCalls(callArgs.loops)]
    /\ UNCHANGED callArgs
    /\ UNCHANGED notCall

MergeNext == MergeLoopyLoops
MergeSpec == MergeStart /\ [][MergeNext]_vars

\* --------------------------------------------------- the quadrant recursion
\* The calls of inverse_floodfill_recursive under the call on a rectangle when
\* the budget never expires and every quadrant is handed to a recursive call:
\* each call is [trail, rect], trail the quadrant numbers from the root and rect
\* <<min_x, max_x, min_z, max_z>>. Calls deeper than MaxDepth are not followed.
MaxDepth == 6
RECURSIVE CallsUnder(_, _)
CallsUnder(trail, rect) ==
    LET self == [trail |-> trail, rect |-> rect]
    IN  IF \/ rect[1] > rect[2] \/ rect[3] > rect[4]
           \/ BelowThreshold(rect[1], rect[3], rect[2], rect[4])
           \/ Len(trail) >= MaxDepth
        THEN {self}
        ELSE {self} \cup UNION {CallsUnder(Append(trail, k),
                                           Quadrants(rect[1], rect[3], rect[2], rect[4])[k])
                                : k \in 1..4}

\* The call returns at once, or hands its rectangle to
\* inverse_floodfill_iterative.
Returns(call) == call.rect[1] > call.rect[2] \/ call.rect[3] > call.rect[4]
Iterates(call) ==
    ~Returns(call) /\ BelowThreshold(call.rect[1], call.rect[3], call.rect[2], call.rect[4])

\* Rectangles with corners of either sign, the inverted ones included.
MaxCoord == 8
Coords == (-MaxCoord)..MaxCoord

FloodStart ==
    /\ Idle
    /\ callArgs \in {[fn |-> "recursive", min |-> a, max |-> b] :
                        a \in Coords \X Coords, b \in Coords \X Coords}
    /\ callResult = NotCalled

\* inverse_floodfill_recursive(min, max, ...)
InverseFloodfillRecursive ==
    /\ callResult = NotCalled
    /\ callResult' = [done |-> TRUE,
                      value |-> CallsUnder(<<>>, <<callArgs.min[1], callArgs.max[1],
                                                  callArgs.min[2], callArgs.max[2]>>)]
    /\ UNCHANGED callArgs
    /\ UNCHANGED notCall

FloodNext == InverseFloodfillRecursive
FloodSpec == FloodStart /\ [][FloodNext]_vars

\* ============================================================== properties
\* Vocabulary of the properties (not part of the program).
ProperEdges(poly) == {i \in 1..Len(poly) : EdgeFrom(poly, i) # EdgeTo(poly, i)}

\* p lies strictly inside the convex polygon.
StrictlyInside(poly, p) ==
    /\ ProperEdges(poly) # {}
    /\ \/ \A i \in ProperEdges(poly) : Cross(EdgeFrom(poly, i), EdgeTo(poly, i), p) > 0
       \/ \A i \in ProperEdges(poly) : Cross(EdgeFrom(poly, i), EdgeTo(poly, i), p) < 0

\* Cell centres are compared in doubled coordinates: the centre of cell
\* <<x, z>> is <<2x + 1, 2z + 1>> against the polygon scaled by two.
Scale2(poly) == [i \in 1..Len(poly) |-> <<2 * poly[i][1], 2 * poly[i][2]>>]
CentreStrictlyInside(poly, c) == StrictlyInside(Scale2(poly), <<2 * c[1] + 1, 2 * c[2] + 1>>)
CentreStrictlyOutside(poly, c) == ~InClosed(Scale2(poly), <<2 * c[1] + 1, 2 * c[2] + 1>>)

IsRing(nodes) == Len(nodes) >= 4 /\ ~IsOpen(nodes)

\* The call was given one closed outer ring and no inner ring.
OneClosedRing ==
    \/ op = "way" /\ IsRing(elem.nodes)
    \/ /\ op = "relation"
       /\ Len(elem.members) = 1
       /\ elem.members[1].role = "outer"
       /\ IsRing(elem.members[1].nodes)

TheRing == IF op = "way" THEN Xz(elem.nodes) ELSE Xz(elem.members[1].nodes)

\* The call kept one water level throughout.
OneLevel == op # "relation" \/ Len(MembersOf(elem, "outer")) <= 1

WrittenCells == {<<w[1], w[3]>> : w \in written}
WrittenYs(c) == {w[2] : w \in {v \in written : v[1] = c[1] /\ v[3] = c[2]}}

\* C1: after generate_water_areas / generate_water_area_from_way on one closed
\* outer ring without inners, every cell of the world rectangle whose centre
\* lies strictly inside the ring holds water at y = water_level, wherever the
\* ring lies (also when it reaches past the last column or row).
C1_InteriorCellsHoldWater ==
    (phase = "done" /\ path = "poly" /\ ~panicked /\ OneClosedRing)
    => \A c \in AllCells :
         CentreStrictlyInside(TheRing, c) => <<c[1], level, c[2]>> \in water

\* C2: in inside mode the inverse flood fill of one convex closed outer ring
\* without inners writes water to no cell whose centre lies strictly outside
\* the ring, on the rect_fill path and on the per-cell path alike.
C2_NoWaterOutsideRing ==
    (path = "poly" /\ OneClosedRing)
    => \A c \in WrittenCells : ~CentreStrictlyOutside(TheRing, c)

\* C3: every selected cell receives water at exactly water_level..=terrain when
\* elevation is enabled and the terrain is at or above water_level, and at
\* exactly the single y = water_level in every other case.
C3_ColumnRule ==
    (phase = "done" /\ ~panicked /\ path \in {"poly", "barrier"} /\ OneLevel)
    => \A c \in selected :
         WrittenYs(c) =
           IF /\ ground.present
              /\ ground.elevation_enabled
              /\ GroundLevelAt(ground, c[1] - MinX, c[2] - MinZ) >= level
           THEN level..GroundLevelAt(ground, c[1] - MinX, c[2] - MinZ)
           ELSE {level}

\* C4: on the polygon path the water level is the Ground's configured ground
\* level when elevation is disabled, and the minimum of Ground.level over the
\* vertices of the outer ring when it is enabled.
C4_PolygonWaterLevel ==
    (path = "poly" /\ OneClosedRing)
    => level =
         IF ground.present /\ ground.elevation_enabled
         THEN SetMin({GroundLevelAt(ground, p[1] - MinX, p[2] - MinZ) : p \in Range(TheRing)})
         ELSE ground.ground_level

\* C5: a relation whose open outer ways chain into closed rings is filled
\* through the inverse flood fill; the barrier fallback is taken only when some
\* outer ring is still open after merging.
C5_MergeBeforeFallback ==
    LET outers == MembersOf(elem, "outer")
        merged == merge_loopy_loops(outers)
        closes == \A i \in 1..Len(outers) : Len(outers[i]) > 0
        chained == /\ closes
                   /\ ~merged.panic
                   /\ \A i \in 1..Len(merged.loops) : ~IsOpen(merged.loops[i])
    IN  (phase = "done" /\ op = "relation" /\ path \in {"poly", "barrier"}
           /\ Len(MembersOf(elem, "inner")) = 0 /\ chained)
        => path = "poly"

\* The cells reachable from the border of the rectangle by 4-connected steps
\* over cells that are not barrier, as a least fixed point.
BorderCells == {c \in AllCells : c[1] \in {MinX, MaxX} \/ c[2] \in {MinZ, MaxZ}}
Adjacent(c, d) == Abs(c[1] - d[1]) + Abs(c[2] - d[2]) = 1
RECURSIVE Grow(_, _)
Grow(free, reached) ==
    LET more == {c \in free \ reached : \E d \in reached : Adjacent(c, d)}
    IN  IF more = {} THEN reached ELSE Grow(free, reached \cup more)
Reachable(bar) == Grow(AllCells \ bar, BorderCells \ bar)

\* C6: generate_coastlines places water at exactly the barrier cells and the
\* cells reachable from the border over non-barrier cells, so a cell enclosed
\* by the coastline gets none (square (1,1)-(4,4): the corners (MinX, MinZ) and
\* (MaxX, MaxZ) are water, (2,2) is not); the inside-mode barrier fill selects
\* exactly the complement.
C6_BarrierFillSets ==
    (phase = "done" /\ path = "barrier")
    => /\ op = "coastline" =>
            /\ WrittenCells = barrier \cup Reachable(barrier)
            /\ elem.ways = <<SqInside>> =>
                 /\ <<MinX, MinZ>> \in WrittenCells
                 /\ <<MaxX, MaxZ>> \in WrittenCells
                 /\ <<2, 2>> \notin WrittenCells
       /\ op # "coastline" =>
            WrittenCells = AllCells \ (barrier \cup Reachable(barrier))

\* The coastline is one closed ring that has vertices on both sides of the
\* world rectangle's boundary.
CrossingRing ==
    /\ op = "coastline"
    /\ Len(elem.ways) = 1
    /\ IsRing(elem.ways[1])
    /\ \E i \in 1..Len(elem.ways[1]) : in_bounds(elem.ways[1][i].x, elem.ways[1][i].z)
    /\ \E i \in 1..Len(elem.ways[1]) : ~in_bounds(elem.ways[1][i].x, elem.ways[1][i].z)

\* C7: after rasterize_and_seal of a closed ring that leaves and re-enters the
\* world rectangle, the flood fill from the border marks no cell inside the
\* ring.
C7_SealSeparates ==
    (path = "barrier" /\ CrossingRing)
    => \A c \in outside : ~StrictlyInside(Xz(elem.ways[1]), c)

\* What the call writes when the budget never expires.
ReferenceWrites ==
    LET OfRing(polys, inners) ==
            ColumnWrites(ground,
                         RecursiveCells(MinX, MinZ, MaxX, MaxZ, polys, inners, FALSE),
                         PolygonWaterLevel(ground, polys))
        outers == MembersOf(elem, "outer")
        merged == merge_loopy_loops(MembersOf(elem, "inner")).loops
        inners_xz == [i \in 1..Len(merged) |-> Xz(merged[i])]
    IN  IF op = "way" THEN OfRing(<<Xz(elem.nodes)>>, <<>>)
        ELSE UNION {OfRing(ClippedOuters(<<outers[i]>>, 1), inners_xz) : i \in 1..Len(outers)}

\* C8: the positions that receive water are the same whether the 25 s budget
\* expires at some point of the recursion or never.
C8_ExpiryKeepsResult ==
    (phase = "done" /\ path = "poly" /\ ~panicked)
    => written = {w \in ReferenceWrites : Lands(w)}

C8_Witness ==
    /\ phase = "done" /\ path = "poly" /\ ~panicked
    /\ {"rect_fill", "recurse", "fallback"} \subseteq events
    /\ written # {}

\* A layer value that is a negative integer: a minus sign, then digits not all
\* zero.
NegativeInteger(chars) ==
    /\ Len(chars) >= 2
    /\ chars[1] = "-"
    /\ \A i \in 2..Len(chars) : IsDigit(chars[i])
    /\ \E i \in 2..Len(chars) : chars[i] # "0"

\* The element fails the water tag gate or lies on a negative layer.
Rejected(e) ==
    \/ /\ ~Has(e.tags, "water")
       /\ ~TagIs(e.tags, "natural", "water")
       /\ ~TagIs(e.tags, "waterway", "riverbank")
       /\ e.kind = "way" => ~(TagIs(e.tags, "waterway", "river") /\ TagIs(e.tags, "area", "yes"))
    \/ Has(e.tags, "layer") /\ NegativeInteger(e.tags["layer"])

C6_Witness ==
    /\ phase = "done" /\ path = "barrier" /\ op = "coastline"
    /\ elem.ways = <<SqInside>>
    /\ AllCells \ WrittenCells # {}

\* C10: the generators complete without panicking on every element.
C10_NoPanic == ~panicked

\* ------------------------------------------------ properties of the registry
IdCalls == {i \in 1..Len(log) : log[i].fn = "id"}
BiomeCalls == {i \in 1..Len(log) : log[i].fn = "biome"}
\* Only id has been called up to entry j.
OnlyIdsUpTo(j) == \A i \in 1..j : log[i].fn = "id"

\* C13: after any sequence of id and biome calls from any threads,
\* id(PLAINS) = 0, id(FOREST) = 1 and id(RIVER) = 2.
C13_KnownIdsStable ==
    \A i \in IdCalls :
        /\ log[i].arg = PLAINS => (log[i].ok /\ log[i].idv = 0)
        /\ log[i].arg = FOREST => (log[i].ok /\ log[i].idv = 1)
        /\ log[i].arg = RIVER => (log[i].ok /\ log[i].idv = 2)

\* C14: from construction on, the fourteen well-known biomes are registered
\* with the ids 0..13 in the order of KNOWN_BIOMES, whichever biome is passed
\* to id first.
C14_WellKnownRegistered ==
    \A k \in 1..Len(KNOWN_BIOMES) :
        IdsHas(KNOWN_BIOMES[k]) /\ IdsGet(KNOWN_BIOMES[k]) = k - 1

\* C15: in a sequence of id calls, every call id(b) returns what the first
\* call id(b) returned, whatever was registered in between, and a repeated
\* call leaves the length of the registry as it was.
C15_IdStable ==
    \A i, j \in IdCalls :
        (i < j /\ OnlyIdsUpTo(j) /\ log[i].arg = log[j].arg)
        => /\ log[j].ok
           /\ log[j].idv = log[i].idv
           /\ log[j].after = log[j].before

C15_Witness ==
    /\ Len(log) = 3
    /\ OnlyIdsUpTo(3)
    /\ log[1].fresh /\ log[2].fresh
    /\ log[3].arg = log[1].arg
    /\ regFill > 0

\* Entries i < j are two calls of one thread with no call of that thread in
\* between.
NextCallOfThread(i, j) ==
    /\ i < j
    /\ log[i].t = log[j].t
    /\ \A m \in (i + 1)..(j - 1) : log[m].t # log[i].t

\* C16: when a caller registers a biome not registered before and then a
\* second one, the second id is the first id plus one, in every interleaving
\* with other threads.
C16_SequentialIds ==
    \A i, j \in IdCalls :
        (NextCallOfThread(i, j) /\ log[i].fresh /\ log[j].fresh)
        => log[j].idv = log[i].idv + 1

\* C17: after any sequence and interleaving of id calls, biome(id(b)) = b for
\* every biome b passed to id, and no two biomes share an id.
C17_MutualInverses ==
    (\A i \in 1..Len(log) : log[i].fn = "id")
    => /\ \A i \in IdCalls : VecHas(log[i].idv) /\ VecGet(log[i].idv) = log[i].arg
       /\ \A i, j \in IdCalls : log[i].idv = log[j].idv => log[i].arg = log[j].arg

\* C18: biome(id) with id at or past the registry size fails and leaves the
\* registry unchanged and usable: later id calls return an id and later biome
\* calls with an id in range return a biome.
C18_OutOfRangeKeepsRegistry ==
    \A i \in BiomeCalls :
        log[i].k >= log[i].before
        => /\ ~log[i].ok
           /\ log[i].after = log[i].before
           /\ \A j \in (i + 1)..Len(log) :
                /\ log[j].fn = "id" => log[j].ok
                /\ (log[j].fn = "biome" /\ log[j].k < log[j].before) => log[j].ok

\* ------------------------------------------- properties of elevation and tiles
\* C19: for every cell height_at lies in [ground_level, MAX_Y], and for two
\* cells a, b of one grid raw(a) <= raw(b) implies height_at(a) <= height_at(b),
\* also on a flat grid (height_range 0).
C19_HeightInRangeMonotone ==
    elevRead # NoRead
    => /\ elevRead[3] >= elevGrid.ground_level /\ elevRead[3] <= MAX_Y
       /\ elevRead[4] >= elevGrid.ground_level /\ elevRead[4] <= MAX_Y
       /\ elevGrid.heights[elevRead[1]] <= elevGrid.heights[elevRead[2]]
            => elevRead[3] <= elevRead[4]

C19_Witness ==
    /\ elevRead # NoRead
    /\ elevGrid.height_range = 0
    /\ elevGrid.ground_level = 300

\* The downloads and the failed decodes among what a run did with one tile.
Downloads(a) == {k \in 1..Len(a) : a[k] \in {"dl-neterror", "dl-good", "dl-bad"}}
BadDecodes(a) == {k \in 1..Len(a) : a[k] \in {"cache-bad", "dl-bad"}}

\* C20: a tile whose bytes fail to decode, from the cache or from a download,
\* is fetched afresh exactly once more; the run fails only when that second
\* attempt fails too or on a network error, and no tile is fetched more than
\* twice in a run.
C20_RetryOnce ==
    /\ \A i \in Tiles : Cardinality(Downloads(attempts[i])) <= 2
    /\ fetchResult # "running"
       => \A i \in Tiles :
            BadDecodes(attempts[i]) # {}
            => Cardinality({k \in Downloads(attempts[i]) :
                              k > SetMin(BadDecodes(attempts[i]))}) = 1
    /\ fetchResult = "err"
       => LET a == attempts[tileIdx]
          IN  \/ a[Len(a)] = "dl-neterror"
              \/ Cardinality(BadDecodes(a)) = 2

\* ------------------------------------------------------- sections: claims
LocalPositions == { <<1, 2, 3>>, <<0, 0, 0>>, <<12, 0, 0>>, <<15, 15, 15>> }
PlainBlocks == {EntryOf(id).name : id \in PlainIds}

\* C11: writing a block with set_block and then reading the same position
\* with get_block gives Some(that block): for every block and local position
\* of every section of the editor, and for every block and world position
\* inside the world rectangle and the supported Y range, whatever the writes
\* made before.
C11_SetThenGet ==
    /\ \A key \in DOMAIN chunks, p \in LocalPositions, block \in PlainBlocks :
          get_block(set_block(chunks[key], p[1], p[2], p[3], block), p[1], p[2], p[3])
            = Some(block)
    /\ \A p \in Positions, block \in PlainBlocks :
          InBounds(p[1], p[2], p[3]) =>
            get_block_absolute(
                set_block_absolute(chunks, block, p[1], p[2], p[3], None, None),
                Reached(chunks, everSet, p[1], p[2], p[3], None, None),
                p[1], p[2], p[3]) = Some(block)

\* The editor read back oak planks at a position of the test's section that
\* held cobblestone, after the last write of the run.
C11_Witness ==
    /\ nWrites = MaxWrites
    /\ TestKey \in DOMAIN chunks
    /\ returned = [kind |-> "block", at |-> <<12, 64, 0>>, value |-> Some(OAK_PLANKS)]

\* max(4, ceil(log2(k))), as the least width of at least 4 bits that holds k
\* values.
LeastWidth(k) == SetMin({n \in 4..16 : 2 ^ n >= k})

\* C12: the palette to_section emits has exactly one entry per distinct
\* (name, properties) of the section (air when air cells remain), and the
\* packed array, decoded with max(4, ceil(log2(palette size))) bits per entry
\* from the least significant bit up without crossing a 64-bit word, gives
\* for each of the 4096 cells the index of the entry written to that cell.
C12_PaletteAndData ==
    returned.kind = "section" =>
        LET section == chunks[returned.of]
            palette == returned.value.palette
            data == returned.value.data
            k == Len(palette)
            bits == LeastWidth(k)
            perWord == WordBits \div bits
        IN /\ \A i, j \in 1..k : palette[i] = palette[j] => i = j
           /\ {palette[i] : i \in 1..k} = {EntryOf(id) : id \in DistinctIds(section)}
           /\ bits_per_block(data) = bits
           /\ Len(data) = (SectionCells + perWord - 1) \div perWord
           /\ \A w \in 1..Len(data) : data[w] \subseteq 0..(perWord * bits - 1)
           /\ \A c \in CellIndexes :
                 LET at == DecodedIndex(data, bits, c)
                 IN /\ at \in 0..(k - 1)
                    /\ palette[at + 1] = EntryOf(section[c])

\* to_section ran on a section with more than 16 entries, two of them signs
\* that differ in their properties only.
C12_Witness ==
    /\ returned.kind = "section"
    /\ Len(returned.value.palette) > 16
    /\ \E i, j \in 1..Len(returned.value.palette) :
          /\ returned.value.palette[i] = SignRotation4
          /\ returned.value.palette[j] = SignRotation8

\* C21: a cache file that exists but does not decode does not fail the run:
\* the tile is downloaded, and when the download brings decodable bytes they
\* replace the file, the run goes on past the tile, and every later run
\* reads the tile from a decodable file.
C21_CorruptCacheRefetched ==
    /\ \A i \in Tiles :
          (attempts[i] # <<>> /\ attempts[i][1] = "cache-bad")
          => /\ Len(attempts[i]) = 2
             /\ attempts[i][2] \in {"dl-neterror", "dl-good", "dl-bad"}
             /\ attempts[i][2] = "dl-good"
                => /\ tileCache[i] = "good"
                   /\ ~(fetchResult = "err" /\ tileIdx = i)
    /\ \A i \in healed :
          /\ tileCache[i] = "good"
          /\ attempts[i] \in {<<>>, <<"cache-good">>, <<"cache-bad", "dl-good">>}

\* A later run has read the repaired file of a tile.
C21_Witness ==
    \E i \in healed : attempts[i] = <<"cache-good">> /\ fetchResult = "ok"

\* C22: Ground::level returns ground_level when elevation is disabled; with
\* elevation enabled it returns height_at of the point's own cell for a point
\* of the grid, and of the nearest edge cell for a point outside it.
C22_LevelIsOwnCell ==
    callResult.done =>
        LET g == callArgs.ground
            x == callArgs.coord[1]
            z == callArgs.coord[2]
        IN  IF ~g.elevation_enabled THEN callResult.value = g.ground_level
            ELSE callResult.value =
                   height_at(g.data, Clamp(x, 0, g.data.width - 1),
                             Clamp(z, 0, g.data.height - 1))

\* The biome the landuse and leisure fallbacks give.
FallbackBiome(tags) ==
    IF Has(tags, "landuse") /\ \E i \in 1..Len(LANDUSE_MAPPINGS) :
                                  LANDUSE_MAPPINGS[i].value = tags["landuse"]
    THEN lookup(LANDUSE_MAPPINGS, tags["landuse"])
    ELSE IF Has(tags, "leisure") /\ \E i \in 1..Len(LEISURE_MAPPINGS) :
                                       LEISURE_MAPPINGS[i].value = tags["leisure"]
    THEN lookup(LEISURE_MAPPINGS, tags["leisure"])
    ELSE Some(PLAINS)
NoKnownBiomeTag(tags) ==
    ~Has(tags, "biome") \/ \A i \in 1..Len(KNOWN_BIOMES) : KNOWN_BIOMES[i].name # tags["biome"]

\* C23: for tags with natural=water and no known biome tag, biome_from_tags
\* gives river when the water (else waterway) value is river, canal or
\* stream, ocean when it is lake, reservoir, lagoon, pond, sea or ocean,
\* swamp when it is wetland or swamp, and river in every other case, also
\* with neither tag present.
C23_NaturalWaterBiome ==
    (callResult.done /\ "tags" \in DOMAIN callArgs
       /\ TagIs(callArgs.tags, "natural", "water") /\ NoKnownBiomeTag(callArgs.tags))
    => LET tags == callArgs.tags
           v == IF Has(tags, "water") THEN tags["water"]
                ELSE IF Has(tags, "waterway") THEN tags["waterway"] ELSE Absent
       IN  callResult.value =
             Some(IF v \in {"river", "canal", "stream"} THEN RIVER
                  ELSE IF v \in {"lake", "reservoir", "lagoon", "pond", "sea", "ocean"}
                  THEN OCEAN
                  ELSE IF v \in {"wetland", "swamp"} THEN SWAMP
                  ELSE RIVER)

\* C24: for tags without the keys biome, natural and water, waterway in
\* {river, canal, stream} gives river and waterway=drain gives swamp; any
\* other waterway value leaves the biome to the landuse mapping, else the
\* leisure mapping, else plains. A biome is returned for every input.
C24_WaterwayThenFallbacks ==
    (callResult.done /\ "tags" \in DOMAIN callArgs)
    => /\ callResult.value # None
       /\ (~Has(callArgs.tags, "biome") /\ ~Has(callArgs.tags, "natural")
              /\ ~Has(callArgs.tags, "water"))
          => callResult.value =
               IF Has(callArgs.tags, "waterway")
                    /\ callArgs.tags["waterway"] \in {"river", "canal", "stream"}
               THEN Some(RIVER)
               ELSE IF TagIs(callArgs.tags, "waterway", "drain") THEN Some(SWAMP)
               ELSE FallbackBiome(callArgs.tags)

\* Consecutive points of a polyline are one unit apart along exactly one axis.
FourConnected(pts) ==
    \A k \in 1..(Len(pts) - 1) :
        Abs(pts[k + 1][1] - pts[k][1]) + Abs(pts[k + 1][3] - pts[k][3]) = 1

\* Consecutive points differ by at most 1 in x and in z.
UnitSteps(pts) ==
    \A k \in 1..(Len(pts) - 1) :
        Abs(pts[k + 1][1] - pts[k][1]) <= 1 /\ Abs(pts[k + 1][3] - pts[k][3]) <= 1

\* Consecutive points are different points.
NoRepeats(pts) == \A k \in 1..(Len(pts) - 1) : pts[k + 1] # pts[k]

\* out holds every point of pts in order, one more point after each point
\* that starts a diagonal pair, and nothing else.
OneAfterEachDiagonal(pts, out) ==
    LET diagonals(i) == Cardinality({k \in 1..(i - 1) : Diagonal(pts[k], pts[k + 1])})
    IN  /\ Len(out) = Len(pts) + diagonals(Len(pts))
        /\ \A i \in 1..Len(pts) : out[i + diagonals(i)] = pts[i]

C27_TurnsLevelled ==
    callResult.done /\ callArgs.fn = "generate" =>
        LET pts == callResult.value.path_points
            heights == callResult.value.base_heights
        IN  \A j \in 2..(Len(pts) - 1) :
                Dir(pts[j - 1], pts[j]) # Dir(pts[j], pts[j + 1]) =>
                    heights[j - 1] <= heights[j] /\ heights[j + 1] <= heights[j]


\* How many nodes of the ways of a list have the ID i.
RECURSIVE Occurrences(_, _)
Occurrences(loops, i) ==
    IF loops = <<>> THEN 0
    ELSE Cardinality({k \in 1..Len(Head(loops)) : Head(loops)[k].id = i})
         + Occurrences(Tail(loops), i)

\* The IDs of the nodes of the ways of a list.
IdsIn(loops) == UNION {{loops[w][k].id : k \in 1..Len(loops[w])} : w \in 1..Len(loops)}

\* The number of nodes of the ways of a list.
RECURSIVE NodeCount(_)
NodeCount(loops) == IF loops = <<>> THEN 0 ELSE Len(Head(loops)) + NodeCount(Tail(loops))

\* The closed ways of a list, in order.
ClosedWays(loops) == SelectSeq(loops, LAMBDA w : ~IsOpen(w))

\* C26: on return of merge_loopy_loops no two distinct open ways share an
\* endpoint node ID; every merge turned two ways of lengths a and b into one
\* of length a + b - 1 holding the shared endpoint once, so the list lost one
\* way and one node per merge and no other node; the closed ways of the input
\* are still there, unchanged and in order; and the call returns, after at
\* most one pass per merge plus the last pass that merges nothing.
C26_MergedUntilNoSharedEndpoint ==
    callResult.done =>
        LET input == callArgs.loops
            out == callResult.value.loops
            merges == Len(input) - Len(out)
            first(w) == w[1].id
            last(w) == w[Len(w)].id
        IN  /\ ~callResult.value.panic
            /\ \A i, j \in 1..Len(out) :
                   i # j /\ IsOpen(out[i]) /\ IsOpen(out[j]) =>
                       {first(out[i]), last(out[i])} \cap {first(out[j]), last(out[j])} = {}
            /\ merges >= 0
            /\ NodeCount(out) = NodeCount(input) - merges
            /\ \A i \in IdsIn(input) \cup IdsIn(out) :
                   /\ Occurrences(out, i) <= Occurrences(input, i)
                   /\ Occurrences(out, i) >= 1
            /\ \A k \in 1..Len(ClosedWays(input)) : ClosedWays(out)[k] = ClosedWays(input)[k]
            /\ callResult.calls <= merges + 1

\* Three open ways that chain were merged into one way in two passes, next to
\* a closed way.
C26_Witness ==
    /\ callResult.done
    /\ Len(callArgs.loops) = 4
    /\ Cardinality({k \in 1..4 : IsOpen(callArgs.loops[k])}) = 3
    /\ Len(callResult.value.loops) = 2
    /\ callResult.calls = 3
    /\ \E k \in 1..2 : IsOpen(callResult.value.loops[k])


\* The cells rect_fill and inverse_floodfill_iterative go through for a
\* rectangle <<min_x, max_x, min_z, max_z>>.
RangeCells(rect) == rect_fill(rect[1], rect[2], rect[3], rect[4])

\* The calls made by a call: the ones one quadrant deeper on its trail.
ChildrenOf(calls, call) ==
    {c \in calls : Len(c.trail) = Len(call.trail) + 1
                    /\ SubSeq(c.trail, 1, Len(call.trail)) = call.trail}

\* (max.0 - min.0) * (max.1 - min.1)
Product(rect) == (rect[2] - rect[1]) * (rect[4] - rect[3])

\* C28: the four quadrants of every rectangle inverse_floodfill_recursive
\* splits, as the half-open cell ranges rect_fill and
\* inverse_floodfill_iterative go through, are pairwise disjoint and their
\* union is the parent's range; so the leaf calls of one run are pairwise
\* disjoint and together cover the range of the first call.
C28_QuadrantsPartition ==
    callResult.done =>
        LET calls == callResult.value
            root == CHOOSE c \in calls : c.trail = <<>>
            leaves == {c \in calls : ChildrenOf(calls, c) = {}}
        IN  /\ \A c \in calls :
                   LET kids == ChildrenOf(calls, c)
                   IN  kids # {} =>
                         /\ Cardinality(kids) = 4
                         /\ UNION {RangeCells(q.rect) : q \in kids} = RangeCells(c.rect)
                         /\ \A q, r \in kids :
                                q # r => RangeCells(q.rect) \cap RangeCells(r.rect) = {}
            /\ UNION {RangeCells(c.rect) : c \in leaves} = RangeCells(root.rect)
            /\ \A c, d \in leaves : c # d => RangeCells(c.rect) \cap RangeCells(d.rect) = {}

\* A rectangle of odd sides around the origin was split into four quadrants
\* that all hold cells.
C28_Witness ==
    /\ callResult.done
    /\ callArgs.min[1] < 0 /\ callArgs.max[1] > 0
    /\ (callArgs.max[1] - callArgs.min[1]) % 2 = 1
    /\ (callArgs.max[2] - callArgs.min[2]) % 2 = 1
    /\ \E c \in callResult.value : Len(c.trail) = 1
    /\ \A c \in callResult.value : Len(c.trail) = 1 => RangeCells(c.rect) # {}

\* C29: inverse_floodfill_recursive returns for every rectangle of integer
\* corners without the timer: every recursive call is on a rectangle whose
\* product of sides is strictly smaller than its parent's and not negative,
\* and every chain of calls ends in a call that returns or iterates.
C29_RecursionShrinks ==
    callResult.done =>
        LET calls == callResult.value
        IN  \A c \in calls :
                /\ \A q \in ChildrenOf(calls, c) :
                       /\ Product(q.rect) < Product(c.rect)
                       /\ Product(q.rect) >= 0
                       /\ ~Returns(q)
                /\ ChildrenOf(calls, c) = {} => Returns(c) \/ Iterates(c)

\* A rectangle one cell wide and long enough to be split, across the origin,
\* was split twice.
C29_Witness ==
    /\ callResult.done
    /\ callArgs.max[1] - callArgs.min[1] = 1
    /\ callArgs.min[2] < 0 /\ callArgs.max[2] > 0
    /\ \E c \in callResult.value : Len(c.trail) = 2


\* C30: for every grid the decode step can produce, height_range =
\* max_height - min_height fits i16, and the ElevationData returned holds the
\* true minimum of its cells as min_height and their maximum minus their
\* minimum as height_range.
C30_RangeFitsI16 ==
    elevGrid # NoGrid =>
        LET cells == {elevGrid.heights[c] : c \in GridCells}
        IN  /\ elevGrid.min_height = SetMin(cells)
            /\ elevGrid.height_range = SetMax(cells) - SetMin(cells)
            /\ elevGrid.height_range \in 0..I16_MAX


====
